---- MODULE Spec2Model ----
(***************************************************************************)
(* Schema-driven test-data synthesis engine of auto-api-tester.            *)
(*                                                                         *)
(* Two generator implementations live in the repository: the database-only *)
(* generator (internal/testdata/generator.go, package testdata, called     *)
(* "basic" here) and the LLM-augmented one                                 *)
(* (internal/testdata/generator/db_generator.go, called "llm" here).  The  *)
(* variable `variant` selects which one a behaviour runs.                  *)
(*                                                                         *)
(* Go strings are sequences of one-character strings, so that ToLower,     *)
(* Contains, Split, slicing and len are computed, not assumed.             *)
(***************************************************************************)
EXTENDS Integers, Sequences, FiniteSets, TLC

(***************************************************************************)
(* Bounds of the model.                                                    *)
(***************************************************************************)
\* Number of sample points taken from the range of one rand.Intn call.
MaxRandSamples == 2
\* Largest number of similar-table suggestions the suggestion service returns.
MaxSuggestions == 2

(***************************************************************************)
(* strings                                                                 *)
(***************************************************************************)
UpperChars == <<"A","B","C","D","E","F","G","H","I","J","K","L","M","N","O","P","Q","R","S","T","U","V","W","X","Y","Z">>
LowerChars == <<"a","b","c","d","e","f","g","h","i","j","k","l","m","n","o","p","q","r","s","t","u","v","w","x","y","z">>
DigitChars == <<"0","1","2","3","4","5","6","7","8","9">>

IndexIn(c, chars) == IF \E i \in 1..Len(chars) : chars[i] = c
                     THEN CHOOSE i \in 1..Len(chars) : chars[i] = c
                     ELSE 0

\* strings.ToLower
ToLowerChar(c) == IF IndexIn(c, UpperChars) > 0 THEN LowerChars[IndexIn(c, UpperChars)] ELSE c
ToLower(s) == [i \in 1..Len(s) |-> ToLowerChar(s[i])]

\* strings.EqualFold
EqualFold(a, b) == ToLower(a) = ToLower(b)

\* strings.Contains
Contains(s, sub) == \E i \in 0..(Len(s) - Len(sub)) : SubSeq(s, i + 1, i + Len(sub)) = sub

\* strings.Trim(s, cutset) for a one-character cutset
RECURSIVE TrimLeft(_, _)
TrimLeft(s, c) == IF Len(s) > 0 /\ s[1] = c THEN TrimLeft(Tail(s), c) ELSE s
RECURSIVE TrimRight(_, _)
TrimRight(s, c) == IF Len(s) > 0 /\ s[Len(s)] = c THEN TrimRight(SubSeq(s, 1, Len(s) - 1), c) ELSE s
Trim(s, c) == TrimRight(TrimLeft(s, c), c)

\* strings.Split(s, sep) for a one-character separator: always at least one part
RECURSIVE Split(_, _)
Split(s, c) ==
    IF \E i \in 1..Len(s) : s[i] = c
    THEN LET i == CHOOSE k \in 1..Len(s) : s[k] = c /\ \A j \in 1..(k - 1) : s[j] # c
         IN  <<SubSeq(s, 1, i - 1)>> \o Split(SubSeq(s, i + 1, Len(s)), c)
    ELSE <<s>>

\* strings.SplitN(s, sep, 2)
SplitN2(s, c) ==
    IF \E i \in 1..Len(s) : s[i] = c
    THEN LET i == CHOOSE k \in 1..Len(s) : s[k] = c /\ \A j \in 1..(k - 1) : s[j] # c
         IN  <<SubSeq(s, 1, i - 1), SubSeq(s, i + 1, Len(s))>>
    ELSE <<s>>

\* fmt's %d verb for a non-negative int
RECURSIVE Itoa(_)
Itoa(n) == IF n < 10 THEN <<DigitChars[n + 1]>> ELSE Itoa(n \div 10) \o <<DigitChars[(n % 10) + 1]>>

\* s[:n] of a Go string
Prefix(s, n) == SubSeq(s, 1, n)

SeqToSet(s) == {s[i] : i \in 1..Len(s)}

\* One fixed enumeration of a finite set (the order SQL or a Go map range
\* produces is unspecified; the model fixes one).
RECURSIVE SetToSeq(_)
SetToSeq(S) == IF S = {} THEN <<>>
               ELSE LET x == CHOOSE y \in S : TRUE IN <<x>> \o SetToSeq(S \ {x})

(***************************************************************************)
(* JSON-like values (interface{} after json.Unmarshal, or as generated)    *)
(***************************************************************************)
JNull == [t |-> "null"]
JInt(n) == [t |-> "int", v |-> n]
JFloat(n) == [t |-> "float", v |-> n]
JBool(b) == [t |-> "bool", v |-> b]
JStr(s) == [t |-> "string", v |-> s]
JObj(f) == [t |-> "object", v |-> f]
JArr(a) == [t |-> "array", v |-> a]
\* A Go map with no entries (or a nil map)
EmptyMap == <<>>

(***************************************************************************)
(* The relational database (external collaborator).  A database is a set   *)
(* of base tables, each with its columns as information_schema reports     *)
(* them (ordered by column name), its rows, and the FOREIGN KEY            *)
(* constraints.  AutoIncrement is a fact of the database (a serial /       *)
(* identity column); whether the engine sees it is up to getColumnInfo.    *)
(***************************************************************************)
DbColumn(name, type, nullable, maxLength, primary, autoIncrement) ==
    [Name |-> name, Type |-> type, IsNullable |-> nullable, MaxLength |-> maxLength,
     Primary |-> primary, AutoIncrement |-> autoIncrement]

CustomerColumns ==
    << DbColumn(<<"e","m","a","i","l">>, <<"c","h","a","r","a","c","t","e","r"," ","v","a","r","y","i","n","g">>, FALSE, 50, FALSE, FALSE),
       DbColumn(<<"i","d">>, <<"i","n","t","e","g","e","r">>, FALSE, 0, TRUE, TRUE),
       DbColumn(<<"i","s","_","a","c","t","i","v","e">>, <<"b","o","o","l","e","a","n">>, TRUE, 0, FALSE, FALSE),
       DbColumn(<<"z","i","p">>, <<"c","h","a","r","a","c","t","e","r"," ","v","a","r","y","i","n","g">>, FALSE, 5, FALSE, FALSE) >>

CustomerRows ==
    { (<<"e","m","a","i","l">> :> JStr(<<"a","n","n","@","e","x","a","m","p","l","e",".","c","o","m">>) @@ <<"i","d">> :> JInt(7)
         @@ <<"i","s","_","a","c","t","i","v","e">> :> JBool(TRUE) @@ <<"z","i","p">> :> JStr(<<"1","0","1","1","5">>)),
      (<<"e","m","a","i","l">> :> JStr(<<"b","o","b","@","e","x","a","m","p","l","e",".","c","o","m">>) @@ <<"i","d">> :> JInt(8)
         @@ <<"i","s","_","a","c","t","i","v","e">> :> JNull @@ <<"z","i","p">> :> JStr(<<"8","0","3","3","1">>)) }

AccountColumns ==
    << DbColumn(<<"a","c","c","o","u","n","t","_","i","d">>, <<"i","n","t","e","g","e","r">>, FALSE, 0, TRUE, TRUE) >>

AccountRows == { (<<"a","c","c","o","u","n","t","_","i","d">> :> JInt(3)), (<<"a","c","c","o","u","n","t","_","i","d">> :> JInt(4)) }

ClientMappingColumns ==
    << DbColumn(<<"a","c","c","o","u","n","t","_","i","d">>, <<"i","n","t","e","g","e","r">>, FALSE, 0, FALSE, FALSE),
       DbColumn(<<"c","u","s","t","o","m","e","r","_","i","d">>, <<"i","n","t","e","g","e","r">>, FALSE, 0, FALSE, FALSE),
       DbColumn(<<"i","d">>, <<"i","n","t","e","g","e","r">>, FALSE, 0, TRUE, TRUE) >>

ClientMappingRows ==
    { (<<"a","c","c","o","u","n","t","_","i","d">> :> JInt(3) @@ <<"c","u","s","t","o","m","e","r","_","i","d">> :> JInt(7) @@ <<"i","d">> :> JInt(1)) }

\* A table that refers to itself: a category's parent is a category
CategoryColumns ==
    << DbColumn(<<"i","d">>, <<"i","n","t","e","g","e","r">>, FALSE, 0, TRUE, TRUE),
       DbColumn(<<"p","a","r","e","n","t","_","i","d">>, <<"i","n","t","e","g","e","r">>, TRUE, 0, FALSE, FALSE) >>

CategoryRows ==
    { (<<"i","d">> :> JInt(1) @@ <<"p","a","r","e","n","t","_","i","d">> :> JNull),
      (<<"i","d">> :> JInt(2) @@ <<"p","a","r","e","n","t","_","i","d">> :> JInt(1)) }

DbTable(name, columns, rows) == [Name |-> name, Columns |-> columns, Rows |-> rows]

ForeignKey(table, column, refTable, refColumn) ==
    [Table |-> table, Column |-> column, RefTable |-> refTable, RefColumn |-> refColumn]

\* The databases a behaviour may run against.  The first one also holds
\* the self-referring category table.  In the second one the
\* customer table was created with a quoted mixed-case name and
\* client_mapping holds no row.  Table names are unique up to case.
Databases ==
    { [Tables |-> { DbTable(<<"c","u","s","t","o","m","e","r">>, CustomerColumns, CustomerRows),
                    DbTable(<<"a","c","c","o","u","n","t">>, AccountColumns, AccountRows),
                    DbTable(<<"c","l","i","e","n","t","_","m","a","p","p","i","n","g">>, ClientMappingColumns, ClientMappingRows),
                    DbTable(<<"c","a","t","e","g","o","r","y">>, CategoryColumns, CategoryRows) },
       ForeignKeys |-> { ForeignKey(<<"c","a","t","e","g","o","r","y">>, <<"p","a","r","e","n","t","_","i","d">>, <<"c","a","t","e","g","o","r","y">>, <<"i","d">>),
                         ForeignKey(<<"c","l","i","e","n","t","_","m","a","p","p","i","n","g">>, <<"c","u","s","t","o","m","e","r","_","i","d">>, <<"c","u","s","t","o","m","e","r">>, <<"i","d">>),
                         ForeignKey(<<"c","l","i","e","n","t","_","m","a","p","p","i","n","g">>, <<"a","c","c","o","u","n","t","_","i","d">>, <<"a","c","c","o","u","n","t">>, <<"a","c","c","o","u","n","t","_","i","d">>) }],
      [Tables |-> { DbTable(<<"C","u","s","t","o","m","e","r">>, CustomerColumns, CustomerRows),
                    DbTable(<<"a","c","c","o","u","n","t">>, AccountColumns, AccountRows),
                    DbTable(<<"c","l","i","e","n","t","_","m","a","p","p","i","n","g">>, ClientMappingColumns, {}) },
       ForeignKeys |-> { ForeignKey(<<"c","l","i","e","n","t","_","m","a","p","p","i","n","g">>, <<"c","u","s","t","o","m","e","r","_","i","d">>, <<"C","u","s","t","o","m","e","r">>, <<"i","d">>),
                         ForeignKey(<<"c","l","i","e","n","t","_","m","a","p","p","i","n","g">>, <<"a","c","c","o","u","n","t","_","i","d">>, <<"a","c","c","o","u","n","t">>, <<"a","c","c","o","u","n","t","_","i","d">>) }] }

VARIABLES
    variant,      \* "basic" or "llm": which DBGenerator implementation runs
    llmClient,    \* g.llmClient: "nil" or "openai" (always "nil" in the basic variant)
    db,           \* the database the run is connected to
    template0,    \* the template file as it was before the run
    template,     \* template.Endpoints in memory
    output,       \* the file at outputPath: NotWritten or the saved endpoints
    pc,           \* position of GenerateTestData
    cur,          \* the endpoint key the loop body is working on
    frame,        \* locals of analyzeEndpointTables across its blocking calls
    stdin,        \* bytes typed by the operator and not yet consumed
    status,       \* per endpoint key: "pending", "ok" or "failed"
    resolution,   \* per endpoint key: what analyzeEndpointTables returned
    io,           \* per endpoint key: the blocking calls made for it, in order
    call,         \* the last call of a generator function made on its own, with
                  \* its arguments and what it returned (NoCall during a run)
    config,       \* e.config of the TestExecutor: MaxWorkers and Retry.Attempts
    endpoints,    \* the endpoints RunTests was called with
    spawned,      \* RunTests: number of goroutines its loop has started
    wg,           \* RunTests: counter of the WaitGroup wg
    sem,          \* RunTests: number of tokens in the channel sem
    mu,           \* RunTests: 0, or the goroutine that holds the mutex mu
    worker,       \* per goroutine: position, attempt, result and what it did
    results,      \* RunTests: the slice results
    returned,     \* what RunTests returned to main
    report        \* the Report built from the returned results

\* the state of the generators, and the state of a test run
genVars == <<variant, llmClient, db, template0, template, output, pc, cur, frame, stdin,
             status, resolution, io, call>>
execVars == <<config, endpoints, spawned, wg, sem, mu, worker, results, returned, report>>

vars == <<genVars, execVars>>

(***************************************************************************)
(* TableAnalyzer (table_analyzer.go)                                       *)
(***************************************************************************)
\* information_schema rows WHERE LOWER(table_name) = LOWER($1)
TablesNamedLike(tableName) == {t \in db.Tables : ToLower(t.Name) = ToLower(tableName)}

ForeignKeysOf(tableName) == {fk \in db.ForeignKeys : ToLower(fk.Table) = ToLower(tableName)}

\* getColumnInfo: the columns query, then the primary-key and foreign-key
\* queries mark columns by name.  No statement assigns IsAutoIncrement, so
\* it keeps Go's zero value.
getColumnInfo(tableName) ==
    IF TablesNamedLike(tableName) = {} THEN <<>>
    ELSE LET t == CHOOSE x \in TablesNamedLike(tableName) : TRUE
             fks == ForeignKeysOf(tableName)
         IN  [i \in 1..Len(t.Columns) |->
                LET c == t.Columns[i]
                    mine == {fk \in fks : fk.Column = c.Name}
                IN  [Name |-> c.Name,
                     Type |-> c.Type,
                     Nullable |-> c.IsNullable,
                     IsPrimary |-> c.Primary,
                     IsForeign |-> mine # {},
                     References |-> IF mine = {} THEN <<>>
                                    ELSE (CHOOSE fk \in mine : TRUE).RefTable,
                     MaxLength |-> c.MaxLength,
                     IsAutoIncrement |-> FALSE]]

\* The zero ColumnInfo{}
ZeroColumnInfo ==
    [Name |-> <<>>, Type |-> <<>>, Nullable |-> FALSE, IsPrimary |-> FALSE, IsForeign |-> FALSE,
     References |-> <<>>, MaxLength |-> 0, IsAutoIncrement |-> FALSE]

\* analyzeTable: a table that does not exist yields no columns and no error
analyzeTable(tableName) == [Name |-> tableName, Columns |-> getColumnInfo(tableName)]

\* FindRelatedTables: SELECT DISTINCT ccu.table_name ... WHERE
\* tc.table_name = $1 OR ccu.table_name = $1 (case-sensitive), then rows
\* equal to tableName are dropped.  ccu.table_name is the referenced table.
FindRelatedTables(tableName) ==
    LET rows == {fk.RefTable : fk \in {x \in db.ForeignKeys :
                                         x.Table = tableName \/ x.RefTable = tableName}}
    IN  SetToSeq({r \in rows : r # tableName})

(***************************************************************************)
(* Random numbers and the clock.  rand.Intn(n) ranges over 0..n-1; the     *)
(* model samples MaxRandSamples evenly spaced points of that range, the    *)
(* two ends included.  time.Now() is one fixed instant.                    *)
(***************************************************************************)
RandIntn(n) == {((n - 1) * k) \div (MaxRandSamples - 1) : k \in 0..(MaxRandSamples - 1)}

\* time.Now().Format(time.RFC3339), .Format("2006-01-02"), .Format("15:04:05")
NowRFC3339 == <<"2","0","2","5","-","0","6","-","0","1","T","1","2",":","3","0",":","0","0","Z">>
NowDate == <<"2","0","2","5","-","0","6","-","0","1">>
NowClock == <<"1","2",":","3","0",":","0","0">>
\* uuid.New().String()
NewUUID == <<"1","2","3","e","4","5","6","7","-","e","8","9","b","-","4","2","d","3","-","a","4","5","6","-","4","2","6","6","1","4","1","7","4","0","0","0">>

Charset == <<"a","b","c","d","e","f","g","h","i","j","k","l","m","n","o","p","q","r","s","t","u","v","w","x","y","z","A","B","C","D","E","F","G","H","I","J","K","L","M","N","O","P","Q","R","S","T","U","V","W","X","Y","Z","0","1","2","3","4","5","6","7","8","9">>

(***************************************************************************)
(* generateValueForType                                                    *)
(* Each operator returns the set of values the Go code may return.  The    *)
(* name switch returns {} when no case matches.                            *)
(***************************************************************************)
\* cases of the name switch that both variants have (email .. county)
NamePatternCommon(columnName) ==
    IF Contains(columnName, <<"e","m","a","i","l">>)
      THEN {JStr(<<"u","s","e","r","_">> \o Itoa(k) \o <<"@","e","x","a","m","p","l","e",".","c","o","m">>) : k \in RandIntn(1000)}
    ELSE IF Contains(columnName, <<"p","h","o","n","e">>)
      THEN {JStr(<<"+","1","-">> \o Itoa(a + 100) \o <<"-">> \o Itoa(b + 100) \o <<"-">> \o Itoa(c + 1000)) :
              <<a, b, c>> \in RandIntn(900) \X RandIntn(900) \X RandIntn(9000)}
    ELSE IF Contains(columnName, <<"f","i","r","s","t","_","n","a","m","e">>)
      THEN {JStr(<<"J","o","h","n">> \o Itoa(k)) : k \in RandIntn(100)}
    ELSE IF Contains(columnName, <<"l","a","s","t","_","n","a","m","e">>)
      THEN {JStr(<<"D","o","e">> \o Itoa(k)) : k \in RandIntn(100)}
    ELSE IF Contains(columnName, <<"a","d","d","r","e","s","s">>)
      THEN {JStr(Itoa(k + 1) \o <<" ","M","a","i","n"," ","S","t">>) : k \in RandIntn(1000)}
    ELSE IF Contains(columnName, <<"c","i","t","y">>)
      THEN {JStr(<<"C","i","t","y">> \o Itoa(k)) : k \in RandIntn(100)}
    ELSE IF Contains(columnName, <<"c","o","u","n","t","r","y">>)
      THEN {JStr(<<"C","o","u","n","t","r","y">> \o Itoa(k)) : k \in RandIntn(100)}
    ELSE IF Contains(columnName, <<"p","o","s","t","a","l","_","c","o","d","e">>) \/ Contains(columnName, <<"z","i","p">>)
      THEN {JStr(Itoa(a + 10000) \o Itoa(b + 100)) : <<a, b>> \in RandIntn(90000) \X RandIntn(1000)}
    ELSE IF Contains(columnName, <<"d","a","t","e","_","o","f","_","b","i","r","t","h">>)
      THEN {JStr(NowDate)}
    ELSE IF Contains(columnName, <<"u","s","e","r","n","a","m","e">>)
      THEN {JStr(<<"u","s","e","r","_">> \o Itoa(k)) : k \in RandIntn(1000)}
    ELSE IF Contains(columnName, <<"v","a","t">>)
      THEN {JStr(<<"V","A","T">> \o Itoa(k)) : k \in RandIntn(1000000)}
    ELSE IF Contains(columnName, <<"s","y","s","t","e","m","_","n","a","m","e">>)
      THEN {JStr(<<"s","y","s","t","e","m","_">> \o Itoa(k)) : k \in RandIntn(1000)}
    ELSE IF Contains(columnName, <<"t","i","m","e","z","o","n","e">>)
      THEN {JStr(<<"U","T","C">>)}
    ELSE IF Contains(columnName, <<"g","e","n","d","e","r">>)
      THEN {JStr(<<"M">>), JStr(<<"F">>), JStr(<<"O">>)}
    ELSE IF Contains(columnName, <<"c","o","m","p","a","n","y">>)
      THEN {JStr(<<"C","o","m","p","a","n","y">> \o Itoa(k)) : k \in RandIntn(1000)}
    ELSE IF Contains(columnName, <<"c","o","u","n","t","y">>)
      THEN {JStr(<<"C","o","u","n","t","y">> \o Itoa(k)) : k \in RandIntn(100)}
    ELSE {}

\* cases only the LLM-augmented variant has (comment .. active)
NamePatternExtra(columnName) ==
    IF Contains(columnName, <<"c","o","m","m","e","n","t">>)
      THEN {JStr(<<"v","a","l","u","e","_">> \o Itoa(k)) : k \in RandIntn(1000)}
    ELSE IF Contains(columnName, <<"g","u","i","d">>)
      THEN {JStr(NewUUID)}
    ELSE IF Contains(columnName, <<"i","d">>)
      THEN {JInt(k + 1) : k \in RandIntn(1000)}
    ELSE IF Contains(columnName, <<"c","r","e","a","t","e","d">>) \/ Contains(columnName, <<"u","p","d","a","t","e","d">>)
      THEN {JStr(NowRFC3339)}
    ELSE IF Contains(columnName, <<"d","e","l","e","t","e","d">>)
      THEN {JBool(FALSE)}
    ELSE IF Contains(columnName, <<"a","c","t","i","v","e">>)
      THEN {JBool(TRUE)}
    ELSE {}

NamePattern(v, columnName) ==
    IF NamePatternCommon(columnName) # {} THEN NamePatternCommon(columnName)
    ELSE IF v = "llm" THEN NamePatternExtra(columnName)
    ELSE {}

\* the type switch (identical in both variants); columnName is lower-cased
TypeDispatch(colType, columnName, col) ==
    LET ty == ToLower(colType) IN
    IF ty \in {<<"i","n","t","e","g","e","r">>, <<"i","n","t">>, <<"i","n","t","4">>, <<"b","i","g","i","n","t">>, <<"i","n","t","8">>}
      THEN {JInt(k + 1) : k \in RandIntn(1000)}
    ELSE IF ty \in {<<"n","u","m","e","r","i","c">>, <<"d","e","c","i","m","a","l">>, <<"r","e","a","l">>, <<"d","o","u","b","l","e"," ","p","r","e","c","i","s","i","o","n">>, <<"f","l","o","a","t">>,
                    <<"f","l","o","a","t","4">>, <<"f","l","o","a","t","8">>}
      THEN {JFloat(k) : k \in RandIntn(1000)}
    ELSE IF ty \in {<<"b","o","o","l","e","a","n">>, <<"b","o","o","l">>}
      THEN {JBool(TRUE), JBool(FALSE)}
    ELSE IF ty \in {<<"c","h","a","r","a","c","t","e","r"," ","v","a","r","y","i","n","g">>, <<"v","a","r","c","h","a","r">>, <<"t","e","x","t">>, <<"c","h","a","r">>, <<"c","h","a","r","a","c","t","e","r">>}
      THEN LET length == IF col.MaxLength = 0 THEN 10 ELSE col.MaxLength
           IN  {JStr([i \in 1..length |-> Charset[k + 1]]) : k \in RandIntn(Len(Charset))}
    ELSE IF ty \in {<<"t","i","m","e","s","t","a","m","p">>, <<"t","i","m","e","s","t","a","m","p"," ","w","i","t","h"," ","t","i","m","e"," ","z","o","n","e">>, <<"t","i","m","e","s","t","a","m","p","t","z">>,
                    <<"t","i","m","e","s","t","a","m","p"," ","w","i","t","h","o","u","t"," ","t","i","m","e"," ","z","o","n","e">>}
      THEN {JStr(NowRFC3339)}
    ELSE IF ty = <<"d","a","t","e">>
      THEN {JStr(NowDate)}
    ELSE IF ty \in {<<"t","i","m","e">>, <<"t","i","m","e"," ","w","i","t","h"," ","t","i","m","e"," ","z","o","n","e">>, <<"t","i","m","e","t","z">>}
      THEN {JStr(NowClock)}
    ELSE IF ty = <<"u","u","i","d">>
      THEN {JStr(NewUUID)}
    ELSE IF ty = <<"u","s","e","r","-","d","e","f","i","n","e","d">>
      THEN IF Contains(columnName, <<"d","a","t","e">>) \/ Contains(columnName, <<"t","i","m","e">>)
             THEN {JStr(NowRFC3339)}
           ELSE IF Contains(columnName, <<"n","a","m","e">>)
             THEN {JStr(<<"N","a","m","e">> \o Itoa(k)) : k \in RandIntn(1000)}
           ELSE IF Contains(columnName, <<"c","o","d","e">>)
             THEN {JStr(<<"C","O","D","E">> \o Itoa(k)) : k \in RandIntn(1000)}
           ELSE IF Contains(columnName, <<"i","d">>)
             THEN {JInt(k + 1) : k \in RandIntn(1000)}
           ELSE {JStr(<<"v","a","l","u","e","_">> \o Itoa(k)) : k \in RandIntn(1000)}
    ELSE IF Contains(ty, <<"c","h","a","r">>) \/ Contains(ty, <<"t","e","x","t">>)
      THEN {JStr(<<"t","e","x","t","_">> \o Itoa(k)) : k \in RandIntn(1000)}
    ELSE IF Contains(ty, <<"i","n","t">>) \/ Contains(ty, <<"n","u","m","b","e","r">>)
      THEN {JInt(k) : k \in RandIntn(1000)}
    ELSE IF Contains(ty, <<"d","a","t","e">>) \/ Contains(ty, <<"t","i","m","e">>)
      THEN {JStr(NowRFC3339)}
    ELSE {JStr(<<"v","a","l","u","e","_">> \o Itoa(k)) : k \in RandIntn(1000)}

\* The synthesizer without its nullable flag: nil is possible for any column
generateValueForTypeAnyNull(v, colType, nullable, columnName, col) ==
    {JNull} \cup (IF NamePattern(v, ToLower(columnName)) # {}
                   THEN NamePattern(v, ToLower(columnName))
                   ELSE TypeDispatch(colType, ToLower(columnName), col))

\* generateValueForType(colType, nullable, columnName, col): a nullable
\* column may yield nil (rand.Float32() below the variant's threshold)
\* before anything else is looked at; then the name switch; then the type
\* switch.  It never returns an error.
generateValueForType(v, colType, nullable, columnName, col) ==
    LET lname == ToLower(columnName)
        named == NamePattern(v, lname)
    IN  (IF nullable THEN {JNull} ELSE {})
          \cup (IF named # {} THEN named ELSE TypeDispatch(colType, lname, col))

(***************************************************************************)
(* Foreign keys, parameters and bodies: database-only variant              *)
(* (internal/testdata/generator.go)                                        *)
(***************************************************************************)
\* An unquoted identifier in a query text is folded to lower case by the
\* database before it is looked up.
UnquotedTable(name) == {t \in db.Tables : t.Name = ToLower(name)}

\* What a generator function returns: a value, or an error
Returned(value) == [ok |-> TRUE, value |-> value]
ReturnedError == [ok |-> FALSE, value |-> JNull]

\* getValidForeignKeyValue(refTable, columnName): an error when the
\* existence check itself fails; else a value of the column in a random
\* row, or rand.Intn(1000)+1 when the table is absent or the query fails
\* (no such table or column under the unquoted names, no row).
getValidForeignKeyValueBasic(refTable, columnName) ==
    LET fallback == {JInt(k + 1) : k \in RandIntn(1000)}
        hit == {t \in UnquotedTable(refTable) :
                  \E i \in 1..Len(t.Columns) : t.Columns[i].Name = ToLower(columnName)}
        found == UNION {{r[ToLower(columnName)] : r \in t.Rows} : t \in hit}
    IN  {ReturnedError} \cup
        {Returned(x) : x \in IF TablesNamedLike(refTable) = {} THEN fallback
                              ELSE IF found = {} THEN fallback
                              ELSE found}

\* value[:MaxLength] for a string longer than a positive MaxLength
ClipToMaxLength(value, col) ==
    IF value.t = "string" /\ col.MaxLength > 0 /\ Len(value.v) > col.MaxLength
    THEN JStr(Prefix(value.v, col.MaxLength))
    ELSE value

\* What one pass of the loop of generateBodyFromDB has for a column: the
\* value to store under its name, or an error (the column is left out).
BodyValuesBasic(col) ==
    IF col.IsForeign
    THEN getValidForeignKeyValueBasic(col.References, col.Name)
    ELSE {Returned(ClipToMaxLength(x, col)) :
            x \in generateValueForType("basic", col.Type, col.Nullable, col.Name, col)}

\* The loop of generateBodyFromDB over tableInfo.Columns, from column i on.
RECURSIVE BodyMapsBasic(_, _)
BodyMapsBasic(cols, i) ==
    IF i > Len(cols) THEN {EmptyMap}
    ELSE IF cols[i].IsPrimary /\ cols[i].IsAutoIncrement THEN BodyMapsBasic(cols, i + 1)
    ELSE {IF r.ok THEN (cols[i].Name :> r.value) @@ m ELSE m :
            r \in BodyValuesBasic(cols[i]), m \in BodyMapsBasic(cols, i + 1)}

\* generateBodyFromDB(tables): the bodies it may return (it reads no template)
generateBodyFromDBBasic(tables) ==
    IF Len(tables) = 0 THEN {JNull}
    ELSE {JObj(m) : m \in BodyMapsBasic(analyzeTable(tables[1]).Columns, 1)}

\* generateValueFromDB(param, tables): the first column, in table order,
\* whose name equals param up to case decides; without one the result is
\* nil and no error.  The value is not clipped.
RECURSIVE generateValueFromDBBasic(_, _)
generateValueFromDBBasic(param, tables) ==
    IF Len(tables) = 0 THEN {JNull}
    ELSE LET cols == analyzeTable(tables[1]).Columns
             match == {i \in 1..Len(cols) : EqualFold(cols[i].Name, param)}
         IN  IF match = {} THEN generateValueFromDBBasic(param, Tail(tables))
             ELSE LET col == cols[CHOOSE i \in match : \A j \in match : i <= j]
                  IN  generateValueForType("basic", col.Type, col.Nullable, col.Name, col)

\* One of the two loops of generateGetData over a parameter map: every nil
\* entry is replaced by a generated value (which may again be nil).
RECURSIVE FillParamsFrom(_, _, _)
FillParamsFrom(params, names, tables) ==
    IF Len(names) = 0 THEN {params}
    ELSE LET n == names[1]
             vals == IF params[n] = JNull THEN generateValueFromDBBasic(n, tables)
                     ELSE {params[n]}
         IN  UNION {FillParamsFrom([params EXCEPT ![n] = x], Tail(names), tables) : x \in vals}

FillParamsBasic(params, tables) == FillParamsFrom(params, SetToSeq(DOMAIN params), tables)

\* A GET generator that, like generatePostData, also assigns the body
generateGetDataAndBody(data, tables) ==
    {[data EXCEPT !.QueryParams = q, !.PathParams = p, !.Body = b] :
       q \in FillParamsBasic(data.QueryParams, tables),
       p \in FillParamsBasic(data.PathParams, tables),
       b \in generateBodyFromDBBasic(tables)}

\* generateGetData / generateDeleteData
generateGetDataBasic(data, tables) ==
    {[data EXCEPT !.QueryParams = q, !.PathParams = p] :
       q \in FillParamsBasic(data.QueryParams, tables),
       p \in FillParamsBasic(data.PathParams, tables)}

\* generatePostData / generatePutData: the body is assigned unconditionally
\* (the `if data.Body == nil` guard is commented out)
generatePostDataBasic(data, tables) ==
    {[data EXCEPT !.Body = b] : b \in generateBodyFromDBBasic(tables)}

(***************************************************************************)
(* Templates (types.TestDataTemplate): endpoint key -> EndpointTestData.   *)
(* A map that is absent from the file is the empty map; an absent body is  *)
(* null.                                                                   *)
(***************************************************************************)
EndpointTestData(pathParams, queryParams, body, headers) ==
    [PathParams |-> pathParams, QueryParams |-> queryParams, Body |-> body, Headers |-> headers]

JsonHeaders == (<<"C","o","n","t","e","n","t","-","T","y","p","e">> :> <<"a","p","p","l","i","c","a","t","i","o","n","/","j","s","o","n">>)

KeyPostCustomer == <<"P","O","S","T"," ","/","a","p","i","/","C","u","s","t","o","m","e","r">>
KeyPutCustomer == <<"P","U","T"," ","/","a","p","i","/","c","u","s","t","o","m","e","r">>
KeyGetCustomer == <<"G","E","T"," ","/","a","p","i","/","c","u","s","t","o","m","e","r">>
KeyPostClientMapping == <<"P","O","S","T"," ","/","a","p","i","/","C","l","i","e","n","t","M","a","p","p","i","n","g">>
KeyDeleteClientMapping == <<"D","E","L","E","T","E"," ","/","a","p","i","/","c","l","i","e","n","t","_","m","a","p","p","i","n","g">>
KeyPatchCustomer == <<"P","A","T","C","H"," ","/","a","p","i","/","c","u","s","t","o","m","e","r">>
KeyGetMissing == <<"G","E","T"," ","/","a","p","i","/","M","i","s","s","i","n","g">>

EndpointPool ==
    KeyPostCustomer :> EndpointTestData(EmptyMap, EmptyMap, JNull, JsonHeaders)
    @@ KeyPutCustomer :> EndpointTestData(
          (<<"i","d">> :> JNull), EmptyMap,
          JObj(<<"e","m","a","i","l">> :> JStr(<<"k","e","e","p","@","e","x","a","m","p","l","e",".","c","o","m">>) @@ <<"z","i","p">> :> JNull), JsonHeaders)
    @@ KeyGetCustomer :> EndpointTestData(
          (<<"i","d">> :> JInt(7)), (<<"z","i","p">> :> JNull @@ <<"h","o","s","p","i","t","a","l","C","o","d","e">> :> JNull), JNull, EmptyMap)
    @@ KeyPostClientMapping :> EndpointTestData(EmptyMap, EmptyMap, JNull, JsonHeaders)
    @@ KeyDeleteClientMapping :> EndpointTestData(
          (<<"i","d">> :> JNull), EmptyMap, JObj(<<"r","e","a","s","o","n">> :> JStr(<<"c","l","e","a","n","u","p">>)), JsonHeaders)
    @@ KeyPatchCustomer :> EndpointTestData(EmptyMap, EmptyMap, JObj(<<"z","i","p">> :> JNull), JsonHeaders)
    @@ KeyGetMissing :> EndpointTestData(EmptyMap, (<<"q">> :> JNull), JNull, EmptyMap)

TemplateOf(keys) == [k \in keys |-> EndpointPool[k]]

\* The template files a behaviour may start from.
Templates ==
    { TemplateOf({KeyPostCustomer, KeyGetCustomer}),
      TemplateOf({KeyPutCustomer, KeyPostClientMapping}),
      TemplateOf({KeyPostClientMapping, KeyDeleteClientMapping}),
      TemplateOf({KeyPatchCustomer, KeyPostCustomer}),
      TemplateOf({KeyGetMissing, KeyPutCustomer}),
      TemplateOf({KeyGetCustomer, KeyPostClientMapping, KeyPatchCustomer}),
      TemplateOf({KeyDeleteClientMapping, KeyGetMissing}) }

\* parseEndpointString
parseEndpointString(endpoint) ==
    LET parts == SplitN2(endpoint, " ")
    IN  IF Len(parts) # 2 THEN [method |-> <<>>, path |-> endpoint]
        ELSE [method |-> parts[1], path |-> parts[2]]

\* The table-name candidate of analyzeEndpointTables: the last part of the
\* trimmed path, lower-cased.
TableCandidate(path) ==
    LET parts == Split(Trim(path, "/"), "/")
    IN  ToLower(parts[Len(parts)])

(***************************************************************************)
(* The suggestion service and the operator (external collaborators)        *)
(***************************************************************************)
\* llm.NewClient: only the "openai" provider tag yields a client
Providers == {"openai", "anthropic"}
NewClient(provider) == IF provider = "openai" THEN "openai" ELSE "nil"

SimilarPair(table1, table2) == [Table1 |-> table1, Table2 |-> table2]

SuggestionPool ==
    { SimilarPair(<<"c","l","i","e","n","t","_","m","a","p","p","i","n","g">>, <<"c","u","s","t","o","m","e","r">>),
      SimilarPair(<<"c","u","s","t","o","m","e","r">>, <<"a","c","c","o","u","n","t">>),
      SimilarPair(<<"a","c","c","o","u","n","t">>, <<"c","l","i","e","n","t","_","m","a","p","p","i","n","g">>) }

\* analysis.SimilarTables as AnalyzeRelationships may return it: any list
\* of at most MaxSuggestions distinct pairs.
SuggestionLists ==
    UNION {{q \in [1..n -> SuggestionPool] : \A i, j \in 1..n : q[i] = q[j] => i = j} :
             n \in 0..MaxSuggestions}

\* What AnalyzeBusinessRules may parse out of the service's answer for a
\* POST/PUT body: any JSON value at all.
LLMBodies ==
    { JObj(<<"e","m","a","i","l">> :> JStr(<<"l","l","m","@","e","x","a","m","p","l","e",".","c","o","m">>) @@ <<"z","i","p">> :> JStr(<<"9","0","2","1","0">>)),
      JObj(<<"i","d">> :> JInt(42) @@ <<"n","o","t","e">> :> JStr(<<"g","e","n","e","r","a","t","e","d">>)),
      JNull }

\* What the operator may type when a read finds nothing pending: one line,
\* or nothing at all (end of input).
OperatorInputs == { <<"1","\n">>, <<"2","\n">>, <<"0","\n">>, <<"9","\n">>, <<"c","l","i","e","n","t","_","m","a","p","p","i","n","g","\n">>, <<"\n">>, <<>> }

(***************************************************************************)
(* fmt.Scanln on os.Stdin.  os.Stdin is no io.RuneScanner, so fmt wraps it *)
(* per call and a rune it reads ahead and pushes back is lost when the     *)
(* call returns.  The error Scanln returns is discarded by every caller;   *)
(* the operand is assigned only when its token scanned.                    *)
(* Each operator maps the pending input to [ok, val, rest].                *)
(***************************************************************************)
IsDigit(c) == IndexIn(c, DigitChars) > 0

RECURSIVE DigitPrefixLen(_)
DigitPrefixLen(buf) == IF Len(buf) > 0 /\ IsDigit(buf[1]) THEN 1 + DigitPrefixLen(Tail(buf)) ELSE 0

RECURSIVE Atoi(_)
Atoi(digits) == IF Len(digits) = 0 THEN 0
                ELSE 10 * Atoi(SubSeq(digits, 1, Len(digits) - 1))
                       + (IndexIn(digits[Len(digits)], DigitChars) - 1)

\* Drop the first character, if there is one.
DropOne(buf) == IF Len(buf) = 0 THEN buf ELSE Tail(buf)

\* After the operands: Scanln reads up to and including the newline, and
\* stops after the first other non-space character ("expected newline").
RECURSIVE ToEndOfLine(_)
ToEndOfLine(buf) ==
    IF Len(buf) = 0 THEN buf
    ELSE IF buf[1] = " " THEN ToEndOfLine(Tail(buf))
    ELSE Tail(buf)

\* fmt.Scanln(&choice), choice an int
ScanlnInt(buf) ==
    IF Len(buf) = 0 THEN [ok |-> FALSE, val |-> 0, rest |-> buf]
    ELSE IF buf[1] = "\n" THEN [ok |-> FALSE, val |-> 0, rest |-> Tail(buf)]
    ELSE LET signed == buf[1] \in {"+", "-"}
             body == IF signed THEN Tail(buf) ELSE buf
             n == DigitPrefixLen(body)
             magnitude == Atoi(SubSeq(body, 1, n))
         IN  IF n = 0 THEN [ok |-> FALSE, val |-> 0, rest |-> DropOne(body)]
             ELSE [ok |-> TRUE,
                   val |-> IF signed /\ buf[1] = "-" THEN 0 - magnitude ELSE magnitude,
                   rest |-> ToEndOfLine(SubSeq(body, n + 1, Len(body)))]

RECURSIVE TokenLen(_)
TokenLen(buf) == IF Len(buf) > 0 /\ buf[1] \notin {" ", "\n"} THEN 1 + TokenLen(Tail(buf)) ELSE 0

\* fmt.Scanln(&name), name a string
ScanlnString(buf) ==
    IF Len(buf) = 0 THEN [ok |-> FALSE, val |-> <<>>, rest |-> buf]
    ELSE IF buf[1] = "\n" THEN [ok |-> FALSE, val |-> <<>>, rest |-> Tail(buf)]
    ELSE LET n == TokenLen(buf)
         IN  [ok |-> TRUE, val |-> SubSeq(buf, 1, n),
              rest |-> ToEndOfLine(SubSeq(buf, n + 1, Len(buf)))]

\* What a read finds: the bytes still pending, or else what the operator
\* types now.
Readable == IF stdin # <<>> THEN {stdin} ELSE OperatorInputs

(***************************************************************************)
(* The run of GenerateTestData                                             *)
(***************************************************************************)
NotWritten == [written |-> FALSE, endpoints |-> EmptyMap]
Written(saved) == [written |-> TRUE, endpoints |-> saved]

NoEndpoint == <<>>
NoCall == [fn |-> "none"]
ZeroFrame == [tableName |-> <<>>, actualTableName |-> <<>>, tables |-> <<>>, suggestions |-> <<>>]

Pending == [state |-> "pending", err |-> "none"]
Ok == [state |-> "ok", err |-> "none"]
Failed(err) == [state |-> "failed", err |-> err]
\* the goroutine panicked while the endpoint was being generated
Panicked == [state |-> "panicked", err |-> "interface conversion"]

\* What analyzeEndpointTables returned for an endpoint: nothing yet, the
\* table list (with the value its local tableName had on return), or an error.
Unresolved == [state |-> "none", tableName |-> <<>>, tables |-> <<>>, err |-> "none"]
Resolved(tableName, tables) == [state |-> "ok", tableName |-> tableName, tables |-> tables, err |-> "none"]
ResolveError(err) == [state |-> "error", tableName |-> <<>>, tables |-> <<>>, err |-> err]

\* Entries of the log of blocking calls that returned
Suggested(ok, similar) == [call |-> "AnalyzeRelationships", ok |-> ok, similar |-> similar, input |-> <<>>]
Scanned(ok, input) == [call |-> "Scanln", ok |-> ok, similar |-> <<>>, input |-> input]
Analyzed(ok) == [call |-> "AnalyzeBusinessRules", ok |-> ok, similar |-> <<>>, input |-> <<>>]

\* A Go error value: nil, or an error with its message
NilError == [nil |-> TRUE, msg |-> ""]
NewError(msg) == [nil |-> FALSE, msg |-> msg]

\* executor.TestResult; the zero value is what `var result TestResult` holds
TestResult(endpoint, method, st, err, response) ==
    [Endpoint |-> endpoint, Method |-> method, Status |-> st, Error |-> err,
     Response |-> response]
ZeroTestResult == TestResult("", "", "", NilError, "")

\* The locals of one goroutine of RunTests: where it is, the loop variable
\* attempt and the variable result
ZeroWorker == [pc |-> "idle", attempt |-> 0, result |-> ZeroTestResult]

NotReturned == [done |-> FALSE, results |-> <<>>]
NoReport == [generated |-> FALSE, source |-> "", TotalTests |-> 0, PassedTests |-> 0,
             FailedTests |-> 0]

\* No test run is going on (the generators run in a separate command)
NoTestRun ==
    /\ config = [MaxWorkers |-> 0, Attempts |-> 0]
    /\ endpoints = <<>>
    /\ spawned = 0
    /\ wg = 0
    /\ sem = 0
    /\ mu = 0
    /\ worker = <<>>
    /\ results = <<>>
    /\ returned = NotReturned
    /\ report = NoReport

Supported == {<<"G","E","T">>, <<"P","O","S","T">>, <<"P","U","T">>, <<"D","E","L","E","T","E">>}

Init ==
    /\ variant \in {"basic", "llm"}
    /\ llmClient \in IF variant = "basic" THEN {"nil"} ELSE {NewClient(p) : p \in Providers}
    /\ db \in Databases
    /\ template0 \in Templates
    /\ template = EmptyMap
    /\ output = NotWritten
    /\ pc = "start"
    /\ cur = NoEndpoint
    /\ frame = ZeroFrame
    /\ stdin = <<>>
    /\ status = [e \in DOMAIN template0 |-> Pending]
    /\ resolution = [e \in DOMAIN template0 |-> Unresolved]
    /\ io = [e \in DOMAIN template0 |-> <<>>]
    /\ call = NoCall
    /\ NoTestRun

\* GenerateTestData, steps 1-3: connect and load the template; either may
\* fail, and then the run returns the error without touching anything.
Startup ==
    /\ pc = "start"
    /\ \E outcome \in {"ok", "connect failed", "load failed"} :
         IF outcome = "ok"
         THEN pc' = "loop" /\ template' = template0
         ELSE pc' = "fatal" /\ template' = template
    /\ UNCHANGED <<execVars, call, variant, llmClient, db, template0, output, cur, frame, stdin,
                   status, resolution, io>>

\* `continue` after the warning: the template entry is not assigned
SkipEndpoint(e, err) ==
    /\ status' = [status EXCEPT ![e] = Failed(err)]
    /\ template' = template
    /\ pc' = "loop"
    /\ cur' = NoEndpoint
    /\ frame' = ZeroFrame

\* template.Endpoints[endpoint] = testData
StoreEndpoint(e, testData) ==
    /\ status' = [status EXCEPT ![e] = Ok]
    /\ template' = [template EXCEPT ![e] = testData]
    /\ pc' = "loop"
    /\ cur' = NoEndpoint
    /\ frame' = ZeroFrame

\* One iteration of the loop in the database-only variant.  It makes no
\* blocking call besides database queries, so it is one step:
\* analyzeEndpointTables (which never looks the table up), then the
\* method switch of generateEndpointData.
GenerateBasic(e) ==
    LET ep == parseEndpointString(e)
        tableName == TableCandidate(ep.path)
        tables == <<tableName>> \o FindRelatedTables(tableName)
        data == template[e]
    IN  /\ resolution' = [resolution EXCEPT ![e] = Resolved(tableName, tables)]
        /\ IF ep.method \in {<<"G","E","T">>, <<"D","E","L","E","T","E">>}
             THEN \E d \in generateGetDataBasic(data, tables) : StoreEndpoint(e, d)
           ELSE IF ep.method \in {<<"P","O","S","T">>, <<"P","U","T">>}
             THEN \E d \in generatePostDataBasic(data, tables) : StoreEndpoint(e, d)
           ELSE SkipEndpoint(e, "unsupported HTTP method")
        /\ UNCHANGED <<execVars, call, variant, llmClient, db, template0, output, stdin, io>>

(***************************************************************************)
(* LLM-augmented variant (internal/testdata/generator/db_generator.go)     *)
(***************************************************************************)
\* getSampleRecord(tableName): the records it may return; none means it
\* returns an error.  The query quotes the table name, so the name must be
\* the stored one exactly; a table without rows is an error as well.
\* Columns holding NULL are left out of the record.
getSampleRecord(tableName) ==
    {[c \in {k \in DOMAIN r : r[k] # JNull} |-> r[c]] :
       r \in UNION {t.Rows : t \in {x \in db.Tables : x.Name = tableName}}}

\* The tail of analyzeEndpointTables (FindRelatedTables on tableName, the
\* main table taken from actualTableName) and the rest of
\* generateEndpointData: the sample record, then the method switch.
\*   - generateGetData / generateDeleteData with a client: the call of
\*     AnalyzeBusinessRules is handed the bare sample record, whose
\*     "endpoint" entry it asserts to be a map: the assertion panics and
\*     nothing recovers, so the process dies.  Without a client the data
\*     is returned as it came.
\*   - generatePostData / generatePutData with a client: the blocking call
\*     of AnalyzeBusinessRules is made (pc "analyzing").
\* ioNow is the log of the endpoint's blocking calls that have returned.
Proceed(e, tableName, actualTableName, ioNow) ==
    LET ep == parseEndpointString(e)
        tables == <<actualTableName>> \o FindRelatedTables(tableName)
        data == template[e]
    IN  /\ resolution' = [resolution EXCEPT ![e] = Resolved(tableName, tables)]
        /\ IF getSampleRecord(tables[1]) = {}
             THEN SkipEndpoint(e, "failed to get sample record") /\ io' = [io EXCEPT ![e] = ioNow]
           ELSE IF ep.method \notin Supported
             THEN SkipEndpoint(e, "unsupported HTTP method") /\ io' = [io EXCEPT ![e] = ioNow]
           ELSE IF llmClient = "nil"
             THEN StoreEndpoint(e, data) /\ io' = [io EXCEPT ![e] = ioNow]
           ELSE IF ep.method \in {<<"G","E","T">>, <<"D","E","L","E","T","E">>}
             THEN /\ pc' = "crashed"
                  /\ status' = [status EXCEPT ![e] = Panicked]
                  /\ io' = [io EXCEPT ![e] = ioNow]
                  /\ UNCHANGED <<template, cur, frame>>
           ELSE /\ pc' = "analyzing"
                /\ cur' = e
                /\ frame' = [ZeroFrame EXCEPT !.tableName = tableName,
                                              !.actualTableName = actualTableName,
                                              !.tables = tables]
                /\ io' = [io EXCEPT ![e] = ioNow]
                /\ UNCHANGED <<status, template>>

\* The check query as it would be without LOWER() on either side
LookupTableExact(tableName) == {t \in db.Tables : t.Name = tableName}

\* The check query of analyzeEndpointTables:
\* SELECT table_name ... WHERE LOWER(table_name) = LOWER($1) LIMIT 1
LookupTable(tableName) == TablesNamedLike(tableName)

\* generateEndpointData up to the first blocking call: the candidate name,
\* then the case-insensitive lookup in information_schema.tables.
ResolveTable(e) ==
    LET ep == parseEndpointString(e)
        tableName == TableCandidate(ep.path)
    IN  /\ IF LookupTable(tableName) # {}
             THEN /\ \E t \in LookupTable(tableName) : Proceed(e, tableName, t.Name, io[e])
                  /\ stdin' = stdin
           ELSE IF llmClient = "nil"
             THEN /\ resolution' = [resolution EXCEPT ![e] = ResolveError("table not found")]
                  /\ SkipEndpoint(e, "table not found")
                  /\ UNCHANGED <<io, stdin>>
           ELSE /\ pc' = "suggesting"
                /\ cur' = e
                /\ frame' = [ZeroFrame EXCEPT !.tableName = tableName]
                /\ UNCHANGED <<status, template, resolution, stdin, io>>
        /\ UNCHANGED <<execVars, call, variant, llmClient, db, template0, output>>

\* One iteration of the loop `for endpoint, data := range template.Endpoints`
\* begins; Go's map order is unspecified.
BeginEndpoint ==
    /\ pc = "loop"
    /\ \E e \in DOMAIN template :
         /\ status[e] = Pending
         /\ IF variant = "basic" THEN GenerateBasic(e) ELSE ResolveTable(e)

\* AnalyzeRelationships returns: an error, or the analysis whose
\* SimilarTables are printed as the numbered menu before the prompt.
SuggestionsReturn ==
    /\ pc = "suggesting"
    /\ \/ /\ resolution' = [resolution EXCEPT ![cur] = ResolveError("failed to analyze relationships")]
          /\ SkipEndpoint(cur, "failed to analyze relationships")
          /\ io' = [io EXCEPT ![cur] = Append(@, Suggested(FALSE, <<>>))]
       \/ \E list \in SuggestionLists :
            /\ frame' = [frame EXCEPT !.suggestions = list]
            /\ pc' = "selecting"
            /\ io' = [io EXCEPT ![cur] = Append(@, Suggested(TRUE, list))]
            /\ UNCHANGED <<status, template, cur, resolution>>
    /\ UNCHANGED <<execVars, call, variant, llmClient, db, template0, output, stdin>>

\* fmt.Scanln(&choice) returns.  choice starts at 0 and keeps it when the
\* line does not scan, so an unreadable line is the "custom name" choice.
OperatorSelect ==
    /\ pc = "selecting"
    /\ \E input \in Readable :
         LET scan == ScanlnInt(input)
             choice == IF scan.ok THEN scan.val ELSE 0
             ioNow == Append(io[cur], Scanned(scan.ok, input))
         IN  /\ stdin' = scan.rest
             /\ IF choice = 0
                  THEN /\ pc' = "naming"
                       /\ io' = [io EXCEPT ![cur] = ioNow]
                       /\ UNCHANGED <<status, template, cur, frame, resolution>>
                ELSE IF choice > 0 /\ choice <= Len(frame.suggestions)
                  THEN Proceed(cur, frame.suggestions[choice].Table1, frame.actualTableName, ioNow)
                ELSE /\ resolution' = [resolution EXCEPT ![cur] = ResolveError("invalid selection")]
                     /\ SkipEndpoint(cur, "invalid selection")
                     /\ io' = [io EXCEPT ![cur] = ioNow]
    /\ UNCHANGED <<execVars, call, variant, llmClient, db, template0, output>>

\* fmt.Scanln(&tableName) returns; tableName keeps the candidate when
\* nothing scans.
OperatorName ==
    /\ pc = "naming"
    /\ \E input \in Readable :
         LET scan == ScanlnString(input)
             tableName == IF scan.ok THEN scan.val ELSE frame.tableName
         IN  /\ stdin' = scan.rest
             /\ Proceed(cur, tableName, frame.actualTableName,
                        Append(io[cur], Scanned(scan.ok, input)))
    /\ UNCHANGED <<execVars, call, variant, llmClient, db, template0, output>>

\* AnalyzeBusinessRules returns to generatePostData: an error (the call or
\* the parse failed), or the parsed answer, which becomes the body.
BusinessRulesReturn ==
    /\ pc = "analyzing"
    /\ \/ /\ SkipEndpoint(cur, "failed to analyze sample record")
          /\ io' = [io EXCEPT ![cur] = Append(@, Analyzed(FALSE))]
       \/ /\ \E analysis \in LLMBodies :
               StoreEndpoint(cur, [template[cur] EXCEPT !.Body = analysis])
          /\ io' = [io EXCEPT ![cur] = Append(@, Analyzed(TRUE))]
    /\ UNCHANGED <<execVars, call, variant, llmClient, db, template0, output, stdin, resolution>>

\* A loop that is left as soon as one endpoint has been processed
RangeDoneAfterFirst(ranged) == \E e \in DOMAIN ranged : status[e] # Pending

\* `for endpoint, data := range template.Endpoints` is over: every key of
\* the map has had its iteration
RangeDone(ranged) == \A e \in DOMAIN ranged : status[e] # Pending

\* Step 5, once the loop is over: saveTestData writes the whole template,
\* or fails and writes nothing.
Save ==
    /\ pc = "loop"
    /\ RangeDone(template)
    /\ \/ output' = Written(template) /\ pc' = "done"
       \/ output' = output /\ pc' = "fatal"
    /\ UNCHANGED <<execVars, call, variant, llmClient, db, template0, template, cur, frame, stdin,
                   status, resolution, io>>

Next ==
    \/ Startup
    \/ BeginEndpoint
    \/ SuggestionsReturn
    \/ OperatorSelect
    \/ OperatorName
    \/ BusinessRulesReturn
    \/ Save

Spec == Init /\ [][Next]_vars

(***************************************************************************)
(* The generator functions called on their own.  Several of them are not   *)
(* reached from GenerateTestData in the LLM-augmented variant; here each   *)
(* is applied to arguments a database and a template can give it, and      *)
(* `call` records the arguments and the result.  A result is [ok, value]:  *)
(* ok is FALSE when the function returns an error.                         *)
(***************************************************************************)
\* A ColumnInfo as getColumnInfo fills it for a plain column
PlainColumn(name, type, nullable, maxLength) ==
    [ZeroColumnInfo EXCEPT !.Name = name, !.Type = type, !.Nullable = nullable,
                           !.MaxLength = maxLength]

\* Column names that match no name pattern, one, or several; the last four
\* steer the branches of the type switch for user-defined types
SynthNames ==
    { <<"e","m","a","i","l">>, <<"P","h","o","n","e","_","E","m","a","i","l">>, <<"z","i","p","_","c","i","t","y">>, <<"u","s","e","r","_","i","d","_","c","o","m","m","e","n","t">>, <<"g","u","i","d">>,
      <<"c","r","e","a","t","e","d","_","b","y","_","i","d">>, <<"i","s","_","a","c","t","i","v","e">>, <<"i","s","_","d","e","l","e","t","e","d">>, <<"n","o","t","e","s">>,
      <<"s","t","a","r","t","s","_","a","t","_","t","i","m","e">>, <<"n","i","c","k","n","a","m","e">>, <<"c","o","d","e">>, <<"k","i","d">> }

\* One declared type for every case of the type switch, and types that
\* only its default case handles
SynthTypes ==
    { <<"i","n","t","e","g","e","r">>, <<"n","u","m","e","r","i","c">>, <<"b","o","o","l","e","a","n">>, <<"t","e","x","t">>, <<"t","i","m","e","s","t","a","m","p">>, <<"d","a","t","e">>, <<"t","i","m","e">>,
      <<"u","u","i","d">>, <<"U","S","E","R","-","D","E","F","I","N","E","D">>, <<"b","p","c","h","a","r">>, <<"s","m","a","l","l","i","n","t">>, <<"d","a","t","e","r","a","n","g","e">>, <<"j","s","o","n","b">> }

\* Columns a database may hold, chosen so that names match no pattern, one
\* pattern, or several patterns at once
SynthColumns ==
    { PlainColumn(<<"e","m","a","i","l">>, <<"c","h","a","r","a","c","t","e","r"," ","v","a","r","y","i","n","g">>, FALSE, 50),
      PlainColumn(<<"P","h","o","n","e","_","E","m","a","i","l">>, <<"t","e","x","t">>, TRUE, 0),
      PlainColumn(<<"z","i","p","_","c","i","t","y">>, <<"c","h","a","r","a","c","t","e","r"," ","v","a","r","y","i","n","g">>, FALSE, 4),
      PlainColumn(<<"u","s","e","r","_","i","d","_","c","o","m","m","e","n","t">>, <<"i","n","t","e","g","e","r">>, FALSE, 0),
      PlainColumn(<<"g","u","i","d">>, <<"t","e","x","t">>, TRUE, 0),
      PlainColumn(<<"c","r","e","a","t","e","d","_","b","y","_","i","d">>, <<"t","i","m","e","s","t","a","m","p">>, FALSE, 0),
      PlainColumn(<<"i","s","_","a","c","t","i","v","e">>, <<"b","o","o","l","e","a","n">>, FALSE, 0),
      PlainColumn(<<"i","s","_","d","e","l","e","t","e","d">>, <<"b","o","o","l","e","a","n">>, TRUE, 0),
      PlainColumn(<<"n","o","t","e","s">>, <<"t","e","x","t">>, TRUE, 0),
      PlainColumn(<<"a","m","o","u","n","t">>, <<"n","u","m","e","r","i","c">>, FALSE, 0),
      PlainColumn(<<"k","i","n","d">>, <<"U","S","E","R","-","D","E","F","I","N","E","D">>, FALSE, 0) }
      \cup { PlainColumn(name, type, nullable, 0) :
               name \in SynthNames, type \in SynthTypes, nullable \in BOOLEAN }

\* What a read finds after an earlier read of the same call left `rest`
ReadFrom(rest, inputs) == IF rest # <<>> THEN {rest} ELSE inputs

\* What the operator may type at the value menu (options 1 to 3)
ValueMenuInputs == OperatorInputs \cup { <<"3","\n">> }

\* analysis.DataPatterns as AnalyzeColumn may return it
ColumnAnalyses ==
    { [DataType |-> <<"i","n","t","e","g","e","r">>, ValueRange |-> <<>>],
      [DataType |-> <<"t","e","x","t">>, ValueRange |-> <<JStr(<<"g","o","l","d">>), JInt(5)>>] }

\* The value menu shared by generateValueFromDB and getValidForeignKeyValue:
\* AnalyzeColumn, the three options, Scanln(&choice) and the switch on it.
\* An unreadable line leaves choice at 0, which no case matches.
SuggestValue(columnName, rest) ==
    {ReturnedError} \cup
    UNION { LET scan == ScanlnInt(input)
                choice == IF scan.ok THEN scan.val ELSE 0
                typed == {Returned(x) : x \in generateValueForType(
                                          "llm", analysis.DataType, TRUE, columnName, ZeroColumnInfo)}
            IN  IF choice = 1 THEN typed
                ELSE IF choice = 2
                  THEN IF Len(analysis.ValueRange) > 0
                       THEN {Returned(analysis.ValueRange[i]) : i \in 1..Len(analysis.ValueRange)}
                       ELSE typed
                ELSE IF choice = 3
                  THEN {Returned(JStr(ScanlnString(line).val)) :
                          line \in ReadFrom(scan.rest, OperatorInputs)}
                ELSE {ReturnedError}
          : analysis \in ColumnAnalyses, input \in ReadFrom(rest, ValueMenuInputs) }

\* SELECT "columnName" FROM "refTable" ORDER BY RANDOM() LIMIT 1: the values
\* it may scan; none means the query fails (no such table or column under
\* the quoted names, or no row)
QuotedColumnValues(refTable, columnName) ==
    UNION {{r[columnName] : r \in t.Rows} :
             t \in {x \in db.Tables :
                      /\ x.Name = refTable
                      /\ \E i \in 1..Len(x.Columns) : x.Columns[i].Name = columnName}}

TableSuggestion(tableName) == [TableName |-> tableName]

\* analysis.Suggestions as AnalyzeRelationships may return it
TableSuggestionLists ==
    UNION {[1..n -> {TableSuggestion(<<"c","u","s","t","o","m","e","r">>), TableSuggestion(<<"a","c","c","o","u","n","t">>)}] :
             n \in 0..MaxSuggestions}

\* getValidForeignKeyValue up to the lookup query: the table name it goes
\* on with and the input left unread, or an error (the existence check
\* itself failed, no client, AnalyzeRelationships failed, invalid selection)
ReferencedTableLLM(refTable) ==
    IF TablesNamedLike(refTable) # {}
      THEN {[ok |-> TRUE, table |-> refTable, rest |-> <<>>],
            [ok |-> FALSE, table |-> refTable, rest |-> <<>>]}
    ELSE IF llmClient = "nil"
      THEN {[ok |-> FALSE, table |-> refTable, rest |-> <<>>]}
    ELSE {[ok |-> FALSE, table |-> refTable, rest |-> <<>>]} \cup
         UNION { LET scan == ScanlnInt(input)
                     choice == IF scan.ok THEN scan.val ELSE 0
                 IN  IF choice = 0
                       THEN {LET named == ScanlnString(line)
                             IN  [ok |-> TRUE,
                                  table |-> IF named.ok THEN named.val ELSE refTable,
                                  rest |-> named.rest] :
                               line \in ReadFrom(scan.rest, OperatorInputs)}
                     ELSE IF choice > 0 /\ choice <= Len(list)
                       THEN {[ok |-> TRUE, table |-> list[choice].TableName, rest |-> scan.rest]}
                     ELSE {[ok |-> FALSE, table |-> refTable, rest |-> scan.rest]}
               : list \in TableSuggestionLists, input \in OperatorInputs }

\* getValidForeignKeyValue of the LLM-augmented variant: the results
\* [ok, value] it may return
getValidForeignKeyValueLLM(refTable, columnName) ==
    UNION { IF ~r.ok THEN {ReturnedError}
            ELSE IF QuotedColumnValues(r.table, columnName) # {}
              THEN {Returned(x) : x \in QuotedColumnValues(r.table, columnName)}
            ELSE IF llmClient = "nil" THEN {ReturnedError}
            ELSE SuggestValue(columnName, r.rest)
          : r \in ReferencedTableLLM(refTable) }

\* The foreign-key columns of the database, as getColumnInfo reports them
ForeignKeyColumns ==
    UNION {{getColumnInfo(t.Name)[i] : i \in 1..Len(t.Columns)} : t \in db.Tables}

\* Template files with a body for a table that has foreign keys, and with
\* an array body
SynthTemplates ==
    { (<<"P","O","S","T"," ","/","a","p","i","/","c","l","i","e","n","t","_","m","a","p","p","i","n","g">> :>
         EndpointTestData(EmptyMap, EmptyMap,
                          JObj(<<"c","u","s","t","o","m","e","r","_","i","d">> :> JInt(7) @@ <<"a","c","c","o","u","n","t","_","i","d">> :> JNull
                                 @@ <<"i","d">> :> JNull @@ <<"n","o","t","e">> :> JNull),
                          JsonHeaders)),
      (<<"P","O","S","T"," ","/","a","p","i","/","c","u","s","t","o","m","e","r">> :>
         EndpointTestData(EmptyMap, EmptyMap,
                          JArr(<<JObj(<<"e","m","a","i","l">> :> JNull @@ <<"z","i","p">> :> JStr(<<"1","0","1","1","5">>)
                                        @@ <<"i","s","_","a","c","t","i","v","e">> :> JNull)>>),
                          JsonHeaders)) }

SynthInit ==
    /\ variant \in {"basic", "llm"}
    /\ llmClient \in IF variant = "basic" THEN {"nil"} ELSE {NewClient(p) : p \in Providers}
    /\ db \in Databases
    /\ template0 \in Templates \cup SynthTemplates
    /\ template = template0
    /\ output = NotWritten
    /\ pc = "synth"
    /\ cur = NoEndpoint
    /\ frame = ZeroFrame
    /\ stdin = <<>>
    /\ status = [e \in DOMAIN template0 |-> Pending]
    /\ resolution = [e \in DOMAIN template0 |-> Unresolved]
    /\ io = [e \in DOMAIN template0 |-> <<>>]
    /\ call = NoCall
    /\ NoTestRun

\* generateValueForType(col.Type, col.Nullable, col.Name, col)
SynthValueForType ==
    /\ pc = "synth"
    /\ call = NoCall
    /\ \E col \in SynthColumns :
         \E value \in generateValueForType(variant, col.Type, col.Nullable, col.Name, col) :
           call' = [fn |-> "generateValueForType", col |-> col, result |-> Returned(value)]
    /\ UNCHANGED <<execVars, variant, llmClient, db, template0, template, output, pc, cur, frame,
                   stdin, status, resolution, io>>

\* getValidForeignKeyValue(col.References, col.Name) for a foreign-key
\* column, as generateBodyFromDB calls it
SynthForeignKeyValue ==
    /\ pc = "synth"
    /\ call = NoCall
    /\ \E col \in {c \in ForeignKeyColumns : c.IsForeign} :
         \E result \in IF variant = "basic"
                       THEN getValidForeignKeyValueBasic(col.References, col.Name)
                       ELSE getValidForeignKeyValueLLM(col.References, col.Name) :
           call' = [fn |-> "getValidForeignKeyValue", col |-> col, result |-> result]
    /\ UNCHANGED <<execVars, variant, llmClient, db, template0, template, output, pc, cur, frame,
                   stdin, status, resolution, io>>

\* The loops of generateValueFromDB over tables and columns: the first
\* column, in table order, whose name equals param up to case
RECURSIVE MatchingColumn(_, _)
MatchingColumn(param, tables) ==
    IF Len(tables) = 0 THEN {}
    ELSE LET cols == analyzeTable(tables[1]).Columns
             match == {i \in 1..Len(cols) : EqualFold(cols[i].Name, param)}
         IN  IF match = {} THEN MatchingColumn(param, Tail(tables))
             ELSE {cols[CHOOSE i \in match : \A j \in match : i <= j]}

\* generateValueFromDB of the LLM-augmented variant: a matching column is
\* handed to generateValueForType; without one the client is asked and the
\* operator chooses at the value menu, or the call fails without a client
generateValueFromDBLLM(param, tables) ==
    IF MatchingColumn(param, tables) # {}
      THEN UNION {{Returned(x) : x \in generateValueForType("llm", col.Type, col.Nullable,
                                                            col.Name, col)} :
                    col \in MatchingColumn(param, tables)}
    ELSE IF llmClient = "nil" THEN {ReturnedError}
    ELSE SuggestValue(param, <<>>)

\* generateValueFromDB(param, tables) for a parameter of an endpoint whose
\* table is t
SynthValueFromDB ==
    /\ pc = "synth"
    /\ call = NoCall
    /\ \E t \in db.Tables :
         \E param \in {t.Columns[i].Name : i \in 1..Len(t.Columns)} \cup {<<"q">>} :
           \E result \in IF variant = "basic"
                         THEN {Returned(x) : x \in generateValueFromDBBasic(param, <<t.Name>>)}
                         ELSE generateValueFromDBLLM(param, <<t.Name>>) :
             call' = [fn |-> "generateValueFromDB", param |-> param,
                      cols |-> MatchingColumn(param, <<t.Name>>),
                      result |-> result]
    /\ UNCHANGED <<execVars, variant, llmClient, db, template0, template, output, pc, cur, frame,
                   stdin, status, resolution, io>>

\* generateValueFromSample(field, sampleRecord, analysis): its body is
\* commented out; it returns nil and no error
generateValueFromSample(field, sampleRecord) == JNull

\* generateBodyFromSample(sampleRecord, analysis): its body is commented
\* out as well; it returns nil and no error
generateBodyFromSample(sampleRecord) == JNull

\* generateObjectFromTemplate and generateArrayFromTemplate call each
\* other; each yields the set of values it may return (the number of array
\* items is random).  No callee returns an error, so neither do they.
RECURSIVE generateObjectFromTemplate(_, _)
RECURSIVE generateArrayFromTemplate(_, _)

\* the value generateObjectFromTemplate may store for one field
FieldFromTemplate(field, templateValue, sampleRecord) ==
    IF templateValue = JNull THEN {generateValueFromSample(field, sampleRecord)}
    ELSE IF templateValue.t = "object"
      THEN {JObj(m) : m \in generateObjectFromTemplate(templateValue.v, sampleRecord)}
    ELSE IF templateValue.t = "array"
      THEN {JArr(a) : a \in generateArrayFromTemplate(templateValue.v, sampleRecord)}
    ELSE {templateValue}

generateObjectFromTemplate(tmpl, sampleRecord) ==
    LET fieldValues == [f \in DOMAIN tmpl |-> FieldFromTemplate(f, tmpl[f], sampleRecord)]
    IN  {m \in [DOMAIN tmpl -> UNION {fieldValues[f] : f \in DOMAIN tmpl}] :
           \A f \in DOMAIN tmpl : m[f] \in fieldValues[f]}

generateArrayFromTemplate(tmpl, sampleRecord) ==
    IF Len(tmpl) = 0 THEN {<<generateBodyFromSample(sampleRecord)>>}
    ELSE LET templateItem == tmpl[1]
             items == IF templateItem # JNull /\ templateItem.t = "object"
                        THEN {JObj(m) : m \in generateObjectFromTemplate(templateItem.v, sampleRecord)}
                      ELSE IF templateItem # JNull /\ templateItem.t = "array"
                        THEN {JArr(a) : a \in generateArrayFromTemplate(templateItem.v, sampleRecord)}
                      ELSE {generateValueFromSample(<<>>, sampleRecord)}
         IN  UNION {[1..(k + 1) -> items] : k \in RandIntn(3)}

\* generateBodyFromTemplate(tmpl, sampleRecord, analysis)
generateBodyFromTemplate(tmpl, sampleRecord) ==
    IF tmpl # JNull /\ tmpl.t = "object"
      THEN {JObj(m) : m \in generateObjectFromTemplate(tmpl.v, sampleRecord)}
    ELSE IF tmpl # JNull /\ tmpl.t = "array"
      THEN {JArr(a) : a \in generateArrayFromTemplate(tmpl.v, sampleRecord)}
    ELSE {generateBodyFromSample(sampleRecord)}

\* Body templates: none, a scalar, an empty array, objects with placeholders
\* and nested arrays, arrays with an object, an array or a scalar as their
\* stencil
BodyTemplates ==
    { JNull,
      JStr(<<"r","a","w">>),
      JArr(<<>>),
      JObj(<<"e","m","a","i","l">> :> JStr(<<"k","e","e","p","@","e","x","a","m","p","l","e",".","c","o","m">>) @@ <<"z","i","p">> :> JNull),
      JObj(<<"i","t","e","m","s">> :> JArr(<<>>) @@ <<"t","a","g","s">> :> JArr(<<JNull>>)),
      JArr(<<JObj(<<"z","i","p">> :> JNull @@ <<"a","d","d","r","e","s","s">> :> JObj(<<"c","i","t","y">> :> JNull))>>),
      JArr(<<JArr(<<JInt(5)>>), JInt(6)>>),
      JArr(<<JStr(<<"a","d","m","i","n">>), JStr(<<"u","s","e","r">>)>>) }

\* generateBodyFromTemplate(template, sampleRecord, analysis) of the
\* LLM-augmented variant, with a sample record of a table of the database
SynthBodyFromTemplate ==
    /\ pc = "synth"
    /\ call = NoCall
    /\ variant = "llm"
    /\ \E body \in BodyTemplates :
         \E t \in db.Tables :
           \E sampleRecord \in getSampleRecord(t.Name) :
             \E value \in generateBodyFromTemplate(body, sampleRecord) :
               call' = [fn |-> "generateBodyFromTemplate", template |-> body,
                        sampleRecord |-> sampleRecord, result |-> Returned(value)]
    /\ UNCHANGED <<execVars, variant, llmClient, db, template0, template, output, pc, cur, frame,
                   stdin, status, resolution, io>>

\* generateBodyFromDB of the LLM-augmented variant: the body object of a
\* template endpoint whose last path segment, lower-cased, is the main
\* table's name lower-cased; for an array body its first element if that
\* is an object.  The map range stops at the first such endpoint, whichever
\* comes first; nil (here: the empty set) when there is none or its body is
\* no object.
TemplateFields(mainTable) ==
    LET matching == {e \in DOMAIN template0 :
                       LET endpointParts == Split(e, " ")
                           pathParts == Split(endpointParts[Len(endpointParts)], "/")
                       IN  /\ Len(endpointParts) >= 2
                           /\ ToLower(pathParts[Len(pathParts)]) = ToLower(mainTable)}
        fieldsOf(e) == LET body == template0[e].Body
                       IN  IF body # JNull /\ body.t = "object" THEN {body.v}
                           ELSE IF /\ body # JNull /\ body.t = "array" /\ Len(body.v) > 0
                                   /\ body.v[1] # JNull /\ body.v[1].t = "object"
                             THEN {body.v[1].v}
                           ELSE {}
    IN  IF matching = {} THEN {[found |-> FALSE, fields |-> EmptyMap]}
        ELSE UNION {IF fieldsOf(e) = {} THEN {[found |-> FALSE, fields |-> EmptyMap]}
                    ELSE {[found |-> TRUE, fields |-> f] : f \in fieldsOf(e)} : e \in matching}

\* One pass of the loop over the template fields: the entries it adds to
\* data (none when the field is skipped) and whether generation failed
FieldOutcomesLLM(fieldName, defaultValue, cols) ==
    LET match == {i \in 1..Len(cols) : EqualFold(cols[i].Name, fieldName)}
    IN  IF match = {}
          THEN IF defaultValue # JNull
                 THEN {[data |-> (fieldName :> defaultValue), failed |-> FALSE]}
               ELSE {[data |-> (fieldName :> x), failed |-> FALSE] :
                       x \in generateValueForType("llm", <<"s","t","r","i","n","g">>, TRUE, fieldName, ZeroColumnInfo)}
        ELSE LET col == cols[CHOOSE i \in match : \A j \in match : i <= j]
             IN  IF col.IsPrimary /\ col.IsAutoIncrement
                   THEN {[data |-> EmptyMap, failed |-> FALSE]}
                 ELSE IF col.IsForeign
                   THEN {IF r.ok THEN [data |-> (col.Name :> r.value), failed |-> FALSE]
                         ELSE [data |-> EmptyMap, failed |-> TRUE] :
                           r \in getValidForeignKeyValueLLM(col.References, col.Name)}
                 ELSE IF defaultValue # JNull /\ defaultValue # JStr(<<>>)
                   THEN {[data |-> (fieldName :> defaultValue), failed |-> FALSE]}
                 ELSE {[data |-> (fieldName :> ClipToMaxLength(x, col)), failed |-> FALSE] :
                         x \in generateValueForType("llm", col.Type, col.Nullable, col.Name, col)}

\* the loop over the template fields, from field i of `names` on: the data
\* map it may build and the names of the fields whose generation failed
RECURSIVE BodyMapsLLM(_, _, _, _)
BodyMapsLLM(fields, names, i, cols) ==
    IF i > Len(names) THEN {[data |-> EmptyMap, failed |-> {}]}
    ELSE {[data |-> o.data @@ rest.data,
           failed |-> (IF o.failed THEN {names[i]} ELSE {}) \cup rest.failed] :
            o \in FieldOutcomesLLM(names[i], fields[names[i]], cols),
            rest \in BodyMapsLLM(fields, names, i + 1, cols)}

\* generateBodyFromDB(tables) of the LLM-augmented variant: what it may
\* return; `failed` names the fields it skipped with a warning
generateBodyFromDBLLM(tables) ==
    IF Len(tables) = 0 THEN {[fields |-> EmptyMap, failed |-> {}, result |-> Returned(JNull)]}
    ELSE {[fields |-> EmptyMap, failed |-> {}, result |-> ReturnedError]} \cup
         UNION {IF ~tf.found
                  THEN {[fields |-> EmptyMap, failed |-> {}, result |-> Returned(JObj(EmptyMap))]}
                ELSE {[fields |-> tf.fields, failed |-> b.failed, result |-> Returned(JObj(b.data))] :
                        b \in BodyMapsLLM(tf.fields, SetToSeq(DOMAIN tf.fields), 1,
                                          analyzeTable(tables[1]).Columns)}
                : tf \in TemplateFields(tables[1])}

\* generateBodyFromDB(tables) of the LLM-augmented variant with a table of
\* the database as the main table
SynthBodyFromDB ==
    /\ pc = "synth"
    /\ call = NoCall
    /\ variant = "llm"
    /\ \E t \in db.Tables :
         \E b \in generateBodyFromDBLLM(<<t.Name>>) :
           call' = [fn |-> "generateBodyFromDB", table |-> t.Name, fields |-> b.fields,
                    failed |-> b.failed, result |-> b.result]
    /\ UNCHANGED <<execVars, variant, llmClient, db, template0, template, output, pc, cur, frame,
                   stdin, status, resolution, io>>

(***************************************************************************)
(* BaseClient (internal/llm/client.go, and the enhanced one of             *)
(* unnamed/part_004 that the LLM-augmented generator is written against)   *)
(***************************************************************************)
ClientSources == {"client.go", "part_004"}

ClientOperations ==
    {"AnalyzeColumn", "AnalyzeRelationships", "AnalyzeBusinessRules", "ValidateTestData",
     "GenerateTestData"}

\* What happens to the underlying call: no client for the provider, the
\* API call fails, the answer is no JSON, the answer is usable
LLMOutcomes == {"unavailable", "failed", "garbage", "answer"}

\* callLLM: the placeholder of client.go always fails; the enhanced one
\* fails when NewClient or the provider's call fails
callLLM(source, llmOutcome) ==
    IF source = "client.go" THEN [ok |-> FALSE]
    ELSE [ok |-> llmOutcome \in {"garbage", "answer"}]

\* sampleData arguments of AnalyzeBusinessRules: an empty list, the bare
\* sample record generateGetData passes, the context generatePostData passes
SampleDataLists ==
    { <<>>,
      << (<<"i","d">> :> JInt(7)) >>,
      << (<<"e","n","d","p","o","i","n","t">> :> JObj(<<"m","e","t","h","o","d">> :> JStr(<<"P","O","S","T">>) @@ <<"b","o","d","y">> :> JNull)
            @@ <<"s","a","m","p","l","e","R","e","c","o","r","d">> :> JObj(<<"i","d">> :> JInt(7))) >> }

\* v.(map[string]interface{}) on an entry of a map: it panics unless the
\* key is there and holds an object
IsMapEntry(context, key) == key \in DOMAIN context /\ context[key].t = "object"

\* The statements of the enhanced AnalyzeBusinessRules before the prompt:
\* sampleData[0] and the two unchecked type assertions
ContextPanics(sampleData) ==
    \/ Len(sampleData) = 0
    \/ ~IsMapEntry(sampleData[1], <<"e","n","d","p","o","i","n","t">>)
    \/ ~IsMapEntry(sampleData[1], <<"s","a","m","p","l","e","R","e","c","o","r","d">>)

\* How a BaseClient operation ends: "panic", "error" or "result"
BaseClientOperation(source, operation, sampleData, llmOutcome) ==
    IF source = "part_004" /\ operation = "AnalyzeBusinessRules" /\ ContextPanics(sampleData)
      THEN "panic"
    ELSE IF ~callLLM(source, llmOutcome).ok THEN "error"
    ELSE IF operation # "ValidateTestData" /\ llmOutcome = "garbage" THEN "error"
    ELSE "result"

\* One operation of a BaseClient is called
SynthClientOperation ==
    /\ pc = "synth"
    /\ call = NoCall
    /\ \E source \in ClientSources, operation \in ClientOperations,
          sampleData \in SampleDataLists, llmOutcome \in LLMOutcomes :
         call' = [fn |-> "BaseClient", source |-> source, operation |-> operation,
                  sampleData |-> sampleData, llm |-> llmOutcome,
                  outcome |-> BaseClientOperation(source, operation, sampleData, llmOutcome)]
    /\ UNCHANGED <<execVars, variant, llmClient, db, template0, template, output, pc, cur, frame,
                   stdin, status, resolution, io>>

\* Any one of the generator functions is called
SynthNext ==
    \/ SynthValueForType
    \/ SynthForeignKeyValue
    \/ SynthValueFromDB
    \/ SynthBodyFromTemplate
    \/ SynthBodyFromDB
    \/ SynthClientOperation

SynthSpec == SynthInit /\ [][SynthNext]_vars

(***************************************************************************)
(* TestExecutor (package executor), convertTestResults (main.go) and the   *)
(* Reporter (package reporter): one run of the test command from RunTests  *)
(* on                                                                      *)
(***************************************************************************)

\* Largest MaxWorkers and Retry.Attempts of the configurations explored
MaxWorkersLimit == 2
MaxRetryAttempts == 2

\* LoadConfig (JSON): the values of test.max_workers and test.retry.attempts
\* are taken from the file as they are; an entry left out or set to 0 stays 0
LoadConfig ==
    [MaxWorkers : 0..MaxWorkersLimit, Attempts : 0..MaxRetryAttempts]

\* The endpoint lists main builds from the keys of the test data file
RunEndpoints ==
    { <<>>,
      <<[Method |-> "GET", Path |-> "/api/customer"],
        [Method |-> "POST", Path |-> "/api/customer"]>>,
      <<[Method |-> "GET", Path |-> "/api/customer"],
        [Method |-> "POST", Path |-> "/api/customer"],
        [Method |-> "DELETE", Path |-> "/api/client_mapping"]>> }

\* What one call of e.client.Do followed by io.ReadAll can give: an error
\* (of either; the two differ in the message only), or a response with its
\* status code and body
HttpOutcomes ==
    { [err |-> TRUE, StatusCode |-> 0, Body |-> ""],
      [err |-> FALSE, StatusCode |-> 200, Body |-> "{}"],
      [err |-> FALSE, StatusCode |-> 204, Body |-> "No Content (204)"],
      [err |-> FALSE, StatusCode |-> 404, Body |-> "{}"] }

\* executeTest(req, endpoint), given what the HTTP call gave
executeTest(outcome, endpoint) ==
    IF outcome.err
      THEN TestResult(endpoint.Path, endpoint.Method, "ERROR",
                      NewError("request failed"), "")
    ELSE IF outcome.StatusCode >= 200 /\ outcome.StatusCode < 300
      THEN TestResult(endpoint.Path, endpoint.Method, "SUCCESS", NilError, outcome.Body)
    ELSE TestResult(endpoint.Path, endpoint.Method, "FAILURE",
                    NewError("unexpected status code"), outcome.Body)

\* a send that never waits
ChanSendAlways(length, capacity) == TRUE

\* `sem <- struct{}{}` can proceed: a send on a channel without a waiting
\* receiver needs a free slot in the buffer
ChanSendReady(length, capacity) == length < capacity

\* `attempt < e.config.Retry.Attempts`: the loop body runs, or the loop ends
LoopTest(attempt) == IF attempt < config.Attempts THEN "execute" ELSE "lock"

RunInit ==
    /\ variant = "basic"
    /\ llmClient = "nil"
    /\ db = CHOOSE d \in Databases : TRUE
    /\ template0 = EmptyMap
    /\ template = EmptyMap
    /\ output = NotWritten
    /\ pc = "run"
    /\ cur = NoEndpoint
    /\ frame = ZeroFrame
    /\ stdin = <<>>
    /\ status = EmptyMap
    /\ resolution = EmptyMap
    /\ io = EmptyMap
    /\ call = NoCall
    /\ config \in LoadConfig
    /\ endpoints \in RunEndpoints
    /\ spawned = 0
    /\ wg = 0
    /\ sem = 0
    /\ mu = 0
    /\ worker = [i \in 1..Len(endpoints) |-> ZeroWorker]
    /\ results = <<>>
    /\ returned = NotReturned
    /\ report = NoReport

\* RunTests, one iteration of `for _, endpoint := range endpoints`:
\* wg.Add(1) and the go statement
Spawn ==
    /\ pc = "run"
    /\ spawned < Len(endpoints)
    /\ spawned' = spawned + 1
    /\ wg' = wg + 1
    /\ worker' = [worker EXCEPT ![spawned + 1].pc = "acquire"]
    /\ UNCHANGED <<genVars, config, endpoints, sem, mu, results, returned, report>>

\* goroutine i: sem <- struct{}{}
Acquire(i) ==
    /\ worker[i].pc = "acquire"
    /\ ChanSendReady(sem, config.MaxWorkers)
    /\ sem' = sem + 1
    /\ worker' = [worker EXCEPT ![i].pc = "load"]
    /\ UNCHANGED <<genVars, config, endpoints, spawned, wg, mu, results, returned, report>>

\* goroutine i: e.testData.GetTestDataForEndpoint(endpoint), which reads the
\* test data file again; on an error the result to append is an ERROR result
GetTestData(i) ==
    /\ worker[i].pc = "load"
    /\ \E ok \in BOOLEAN :
         worker' = [worker EXCEPT ![i] =
           IF ok THEN [@ EXCEPT !.pc = "build"]
           ELSE [@ EXCEPT !.pc = "lock",
                          !.result = TestResult(endpoints[i].Path, endpoints[i].Method, "ERROR",
                                                NewError("failed to get test data"), "")]]
    /\ UNCHANGED <<genVars, config, endpoints, spawned, wg, sem, mu, results, returned, report>>

\* goroutine i: e.buildRequest(ctx, endpoint, testData); with a request the
\* retry loop starts with attempt := 0
BuildRequest(i) ==
    /\ worker[i].pc = "build"
    /\ \E ok \in BOOLEAN :
         worker' = [worker EXCEPT ![i] =
           IF ok THEN [@ EXCEPT !.pc = LoopTest(0), !.attempt = 0]
           ELSE [@ EXCEPT !.pc = "lock",
                          !.result = TestResult(endpoints[i].Path, endpoints[i].Method, "ERROR",
                                                NewError("failed to build request"), "")]]
    /\ UNCHANGED <<genVars, config, endpoints, spawned, wg, sem, mu, results, returned, report>>

\* goroutine i, loop body: result = e.executeTest(req, endpoint), and break
\* if result.Error == nil
ExecuteTest(i) ==
    /\ worker[i].pc = "execute"
    /\ \E outcome \in HttpOutcomes :
         LET result == executeTest(outcome, endpoints[i])
         IN  worker' = [worker EXCEPT ![i] =
               [@ EXCEPT !.result = result,
                         !.pc = IF result.Error = NilError THEN "lock" ELSE "sleep"]]
    /\ UNCHANGED <<genVars, config, endpoints, spawned, wg, sem, mu, results, returned, report>>

\* goroutine i, rest of the loop body: time.Sleep(e.config.Retry.Delay),
\* then attempt++ and the loop test
Sleep(i) ==
    /\ worker[i].pc = "sleep"
    /\ worker' = [worker EXCEPT ![i] =
         [@ EXCEPT !.attempt = @ + 1,
                   !.pc = LoopTest(worker[i].attempt + 1)]]
    /\ UNCHANGED <<genVars, config, endpoints, spawned, wg, sem, mu, results, returned, report>>

\* goroutine i: mu.Lock()
Lock(i) ==
    /\ worker[i].pc = "lock"
    /\ mu = 0
    /\ mu' = i
    /\ worker' = [worker EXCEPT ![i].pc = "append"]
    /\ UNCHANGED <<genVars, config, endpoints, spawned, wg, sem, results, returned, report>>

\* goroutine i: results = append(results, result) and mu.Unlock()
AppendResult(i) ==
    /\ worker[i].pc = "append"
    /\ results' = Append(results, worker[i].result)
    /\ mu' = 0
    /\ worker' = [worker EXCEPT ![i].pc = "return"]
    /\ UNCHANGED <<genVars, config, endpoints, spawned, wg, sem, returned, report>>

\* goroutine i returns; its deferred calls run: <-sem, then wg.Done()
Return(i) ==
    /\ worker[i].pc = "return"
    /\ sem' = sem - 1
    /\ wg' = wg - 1
    /\ worker' = [worker EXCEPT ![i].pc = "done"]
    /\ UNCHANGED <<genVars, config, endpoints, spawned, mu, results, returned, report>>

\* RunTests after its loop: wg.Wait() and `return results`
Wait ==
    /\ pc = "run"
    /\ spawned = Len(endpoints)
    /\ wg = 0
    /\ ~returned.done
    /\ returned' = [done |-> TRUE, results |-> results]
    /\ UNCHANGED <<genVars, config, endpoints, spawned, wg, sem, mu, worker, results, report>>

\* convertTestResults: executor.TestResult to reporter.TestResult; Error is
\* fmt.Sprintf("%v", r.Error), which prints a nil error as <nil>
convertTestResults(rs) ==
    [i \in 1..Len(rs) |->
       [Endpoint |-> rs[i].Endpoint,
        Method |-> rs[i].Method,
        Status |-> IF rs[i].Status = "SUCCESS"
                     THEN (IF rs[i].Response = "No Content (204)" THEN 204 ELSE 200)
                   ELSE IF rs[i].Status = "FAILURE" THEN 400
                   ELSE IF rs[i].Status = "ERROR" THEN 500
                   ELSE 0,
        Error |-> IF rs[i].Error.nil THEN "<nil>" ELSE rs[i].Error.msg,
        Response |-> rs[i].Response]]

\* Reporter.GenerateReport counts a result as passed if its Error is the
\* empty string (package reporter), or if its Status is a 2xx code (the
\* GenerateReport of the README)
GenerateReport(source, rs) ==
    LET passed == {i \in 1..Len(rs) :
                     IF source = "reporter" THEN rs[i].Error = ""
                     ELSE rs[i].Status >= 200 /\ rs[i].Status < 300}
    IN  [generated |-> TRUE, source |-> source, TotalTests |-> Len(rs),
         PassedTests |-> Cardinality(passed),
         FailedTests |-> Len(rs) - Cardinality(passed)]

\* main: testReporter.GenerateReport(convertTestResults(results))
Report ==
    /\ pc = "run"
    /\ returned.done
    /\ ~report.generated
    /\ \E source \in {"reporter", "README"} :
         report' = GenerateReport(source, convertTestResults(returned.results))
    /\ UNCHANGED <<genVars, config, endpoints, spawned, wg, sem, mu, worker, results, returned>>

\* the steps of goroutine i
Worker(i) ==
    \/ Acquire(i)
    \/ GetTestData(i)
    \/ BuildRequest(i)
    \/ ExecuteTest(i)
    \/ Sleep(i)
    \/ Lock(i)
    \/ AppendResult(i)
    \/ Return(i)

RunNext ==
    \/ Spawn
    \/ Wait
    \/ Report
    \/ \E i \in 1..Len(endpoints) : Worker(i)

RunSpec == RunInit /\ [][RunNext]_vars

\* The Go scheduler runs every goroutine that can take a step, and every
\* HTTP call returns
RunFairSpec ==
    /\ RunSpec
    /\ WF_vars(Spawn \/ Wait \/ Report)
    /\ \A i \in 1..3 : WF_vars(i <= Len(endpoints) /\ Worker(i))

(***************************************************************************)
(* Properties                                                              *)
(***************************************************************************)
MethodOf(e) == parseEndpointString(e).method
CandidateOf(e) == TableCandidate(parseEndpointString(e).path)

\* The tables of the database whose name is `name` up to letter case
TablesIgnoringCase(name) == {t \in db.Tables : EqualFold(t.Name, name)}
ColumnsIgnoringCase(name) ==
    UNION {{t.Columns[i] : i \in 1..Len(t.Columns)} : t \in TablesIgnoringCase(name)}

\* A parameter map keeps every entry that was not null.
ParamsKept(old, new) ==
    \A k \in DOMAIN old : old[k] # JNull => (k \in DOMAIN new /\ new[k] = old[k])

\* A body keeps every leaf that was not null.
RECURSIVE NonNullKept(_, _)
NonNullKept(old, new) ==
    IF old = JNull THEN TRUE
    ELSE IF old.t = "object"
      THEN /\ new.t = "object"
           /\ \A k \in DOMAIN old.v : k \in DOMAIN new.v /\ NonNullKept(old.v[k], new.v[k])
    ELSE new = old

\* C1: every field of the template that is not null (a path parameter, a
\* query parameter, a leaf of the body) has the same value in the written
\* output, whatever the endpoint's method.
C1_OverridesPreserved ==
    output.written =>
      \A e \in DOMAIN template0 :
        /\ e \in DOMAIN output.endpoints
        /\ ParamsKept(template0[e].PathParams, output.endpoints[e].PathParams)
        /\ ParamsKept(template0[e].QueryParams, output.endpoints[e].QueryParams)
        /\ NonNullKept(template0[e].Body, output.endpoints[e].Body)

\* C2: an endpoint whose generation failed keeps its template entry as it
\* was, in memory and in the written output, and once the run is over no
\* endpoint was left unprocessed because another one failed.
C2_FailureIsolated ==
    /\ \A e \in DOMAIN template :
         status[e].state = "failed" =>
           /\ template[e] = template0[e]
           /\ output.written => output.endpoints[e] = template0[e]
    /\ (pc \in {"done", "fatal", "crashed"} /\ \E e \in DOMAIN template : status[e].state = "failed")
         => \A e \in DOMAIN template : status[e] # Pending

\* C3: no key of a body generated for a POST or PUT endpoint names a column
\* of the primary table that is a primary key and auto-increment.
C3_NoAutoIncrementKeyInBody ==
    \A e \in DOMAIN template :
      ( /\ status[e] = Ok
        /\ MethodOf(e) \in {<<"P","O","S","T">>, <<"P","U","T">>}
        /\ template[e].Body # template0[e].Body
        /\ template[e].Body.t = "object" )
      => \A k \in DOMAIN template[e].Body.v :
           \A c \in ColumnsIgnoringCase(resolution[e].tables[1]) :
             ~(c.Name = k /\ c.Primary /\ c.AutoIncrement)

\* The endpoint went through disambiguation: the suggestion service
\* answered and the operator's line was read.
Prompted(e) ==
    /\ Len(io[e]) >= 2
    /\ io[e][1].call = "AnalyzeRelationships" /\ io[e][1].ok
    /\ io[e][2].call = "Scanln"

\* The line the operator types to pick entry k of the menu
MenuLine(k) == Itoa(k) \o <<"\n">>

\* C4: when the operator answers the menu with k in 1..n, resolution
\* succeeds with the k-th suggested table as the primary table.
C4_SelectionIsPrimary ==
    \A e \in DOMAIN template0 :
      Prompted(e) =>
        \A k \in 1..Len(io[e][1].similar) :
          (io[e][2].input = MenuLine(k) /\ resolution[e].state # "none")
            => /\ resolution[e].state = "ok"
               /\ resolution[e].tables # <<>>
               /\ resolution[e].tables[1] = io[e][1].similar[k].Table1

\* The tables joined to T by a foreign key in either direction, T excluded
Neighbours(T) ==
    ({fk.RefTable : fk \in {x \in db.ForeignKeys : x.Table = T}}
       \cup {fk.Table : fk \in {x \in db.ForeignKeys : x.RefTable = T}}) \ {T}

\* C5: the related tables computed for a table T are exactly the distinct
\* tables other than T joined to T by a foreign key, in either direction.
C5_RelatedIsBothDirections ==
    \A e \in DOMAIN template0 :
      resolution[e].state = "ok" =>
        LET related == Tail(resolution[e].tables)
        IN  /\ SeqToSet(related) = Neighbours(resolution[e].tableName)
            /\ Cardinality(SeqToSet(related)) = Len(related)

\* C6: when the operator's line is not a menu index (a number out of
\* range, or a line that does not read as a number), disambiguation fails
\* with an error, nothing more is read, and the endpoint is skipped.
C6_InvalidInputFails ==
    \A e \in DOMAIN template0 :
      (Prompted(e) /\ io[e][2].input \notin {MenuLine(k) : k \in 0..Len(io[e][1].similar)})
        => /\ resolution[e].state = "error"
           /\ status[e].state = "failed"
           /\ Len(io[e]) = 2

\* C7: a successful resolution returns a non-empty list whose first entry
\* is the resolved primary table (the table the resolution settled on, up
\* to letter case) and whose other entries are the related tables of that
\* same table.
C7_ResolutionShape ==
    \A e \in DOMAIN template0 :
      resolution[e].state = "ok" =>
        /\ resolution[e].tables # <<>>
        /\ EqualFold(resolution[e].tables[1], resolution[e].tableName)
        /\ Tail(resolution[e].tables) = FindRelatedTables(resolution[e].tables[1])

C9_NoServiceMeansUnresolvedError ==
    \A e \in DOMAIN template0 :
      (llmClient = "nil" /\ TablesIgnoringCase(CandidateOf(e)) = {} /\ status[e] # Pending)
        => /\ resolution[e].state = "error"
           /\ resolution[e].err = "table not found"
           /\ status[e] = Failed("table not found")
           /\ io[e] = <<>>
           /\ template[e] = template0[e]

\* A generated parameter map: every string put in place of a null fits the
\* column of the primary table it is bound to.
ParamsFit(old, new, cols) ==
    \A k \in DOMAIN old :
      (old[k] = JNull /\ k \in DOMAIN new /\ new[k].t = "string")
        => \A c \in cols : (EqualFold(c.Name, k) /\ c.MaxLength > 0)
                              => Len(new[k].v) <= c.MaxLength

\* C10: a generated string bound to a column with maximum length L > 0 is
\* at most L characters long, in a body as well as in a path or query
\* parameter, whichever rule produced it.
C10_StringsFitColumn ==
    \A e \in DOMAIN template :
      status[e] = Ok =>
        LET cols == ColumnsIgnoringCase(resolution[e].tables[1])
            body == template[e].Body
        IN  /\ ParamsFit(template0[e].PathParams, template[e].PathParams, cols)
            /\ ParamsFit(template0[e].QueryParams, template[e].QueryParams, cols)
            /\ (variant = "basic" /\ MethodOf(e) \in {<<"P","O","S","T">>, <<"P","U","T">>} /\ body.t = "object")
                 => \A k \in DOMAIN body.v :
                      body.v[k].t = "string" =>
                        \A c \in cols : (c.Name = k /\ c.MaxLength > 0)
                                          => Len(body.v[k].v) <= c.MaxLength

\* The values stored in the column that foreign-key column `col` refers to
ReferencedValues(col) ==
    UNION {{r[fk.RefColumn] : r \in UNION {t.Rows : t \in {x \in db.Tables : x.Name = fk.RefTable}}} :
             fk \in {x \in db.ForeignKeys : x.Column = col.Name /\ x.RefTable = col.References}}

SyntheticPositiveInteger(value) == value.t = "int" /\ value.v > 0

\* C11: when the referenced table has at least one row, a value produced
\* for a foreign-key column is a value stored in the referenced column of
\* the referenced table or a synthetic positive integer, and nothing else.
C11_ForeignKeyValueStoredOrSynthetic ==
    (call.fn = "getValidForeignKeyValue" /\ call.result.ok /\ ReferencedValues(call.col) # {})
      => \/ call.result.value \in ReferencedValues(call.col)
         \/ SyntheticPositiveInteger(call.result.value)

\* The values the lookup can find: those of the column named like the
\* foreign-key column in the table it refers to
LookedUpValues(col) ==
    UNION {UNION {{r[c] : c \in {k \in DOMAIN r : EqualFold(k, col.Name)}} : r \in t.Rows} :
             t \in TablesIgnoringCase(col.References)}

\* C12: resolving a foreign-key value never returns an error and never
\* leaves the field without a value; whenever the lookup cannot deliver a
\* value, the field receives a synthetic positive integer.
C12_ForeignKeyNeverFails ==
    call.fn = "getValidForeignKeyValue" =>
      /\ call.result.ok
      /\ call.result.value # JNull
      /\ LookedUpValues(call.col) = {} => SyntheticPositiveInteger(call.result.value)

\* C13: for a column that is not nullable, generateValueForType never
\* returns null, whatever the column's name and declared type; null is a
\* possible result only for nullable columns
C13_NonNullableNeverNull ==
    (call.fn = "generateValueForType" /\ call.result.value = JNull) => call.col.Nullable

\* a non-nullable column whose name matches no pattern and whose type only
\* the default case of the type switch handles has been given a value
C13_Witness ==
    /\ call.fn = "generateValueForType"
    /\ ~call.col.Nullable
    /\ call.col.Name = <<"n","o","t","e","s">>
    /\ call.col.Type = <<"j","s","o","n","b">>
    /\ call.result.ok
    /\ call.result.value.t = "string"

\* The name patterns in the order the specification gives them
PatternOrder ==
    << {<<"e","m","a","i","l">>}, {<<"p","h","o","n","e">>}, {<<"f","i","r","s","t","_","n","a","m","e">>, <<"l","a","s","t","_","n","a","m","e">>}, {<<"a","d","d","r","e","s","s">>}, {<<"c","i","t","y">>},
       {<<"c","o","u","n","t","r","y">>}, {<<"p","o","s","t","a","l","_","c","o","d","e">>, <<"z","i","p">>}, {<<"d","a","t","e","_","o","f","_","b","i","r","t","h">>}, {<<"u","s","e","r","n","a","m","e">>},
       {<<"v","a","t">>}, {<<"s","y","s","t","e","m","_","n","a","m","e">>}, {<<"t","i","m","e","z","o","n","e">>}, {<<"g","e","n","d","e","r">>}, {<<"c","o","m","p","a","n","y">>},
       {<<"c","o","u","n","t","y">>}, {<<"c","o","m","m","e","n","t">>}, {<<"g","u","i","d">>}, {<<"i","d">>}, {<<"c","r","e","a","t","e","d">>, <<"u","p","d","a","t","e","d">>},
       {<<"d","e","l","e","t","e","d">>}, {<<"a","c","t","i","v","e">>} >>

Matches(columnName, i) == \E k \in PatternOrder[i] : Contains(columnName, k)

\* the first pattern of the order that the lower-cased name matches, if any
FirstMatching(columnName) ==
    {i \in DOMAIN PatternOrder :
       Matches(columnName, i) /\ \A j \in 1..(i - 1) : ~Matches(columnName, j)}

\* what pattern i produces: the values given to a column named by the
\* pattern's keyword alone
ValuesOfPattern(columnName, i) ==
    UNION {NamePatternCommon(k) \cup NamePatternExtra(k) :
             k \in {x \in PatternOrder[i] : Contains(columnName, x)}}

\* C14: a non-null value for a column whose lower-cased name matches one or
\* more name patterns is the value of the first matching pattern in the fixed
\* order email .. active, whatever the declared type
C14_FirstPatternWins ==
    (call.fn = "generateValueForType" /\ call.result.value # JNull)
      => \A i \in FirstMatching(ToLower(call.col.Name)) :
           call.result.value \in ValuesOfPattern(ToLower(call.col.Name), i)

\* What getValidForeignKeyValue may return for a foreign-key column
ForeignKeyResolution(col) ==
    IF variant = "basic" THEN getValidForeignKeyValueBasic(col.References, col.Name)
    ELSE getValidForeignKeyValueLLM(col.References, col.Name)

\* C15: a value for a foreign-key column is a result of
\* getValidForeignKeyValue, never one of the nullable short-circuit, the
\* name patterns or the type switch, also when generateValueFromDB
\* synthesizes a path or query parameter
C15_ForeignKeyOnlyByResolution ==
    call.fn = "generateValueFromDB" =>
      \A col \in call.cols : col.IsForeign => call.result \in ForeignKeyResolution(col)

\* C16: for a GET or DELETE endpoint the run changes nothing but path and
\* query parameters: body and headers, in memory and in the written file,
\* are those of the input template
C16_GetDeleteKeepBodyAndHeaders ==
    /\ \A e \in DOMAIN template :
         MethodOf(e) \in {<<"G","E","T">>, <<"D","E","L","E","T","E">>} =>
           /\ template[e].Body = template0[e].Body
           /\ template[e].Headers = template0[e].Headers
    /\ \A e \in DOMAIN output.endpoints :
         MethodOf(e) \in {<<"G","E","T">>, <<"D","E","L","E","T","E">>} =>
           /\ output.endpoints[e].Body = template0[e].Body
           /\ output.endpoints[e].Headers = template0[e].Headers

\* a GET or DELETE endpoint that came with a body and headers was generated,
\* a parameter of it was filled, and the template was written
C16_Witness ==
    /\ output.written
    /\ \E e \in DOMAIN output.endpoints :
         /\ MethodOf(e) \in {<<"G","E","T">>, <<"D","E","L","E","T","E">>}
         /\ status[e] = Ok
         /\ template0[e].Body # JNull
         /\ template0[e].Headers # EmptyMap
         /\ \/ output.endpoints[e].QueryParams # template0[e].QueryParams
            \/ output.endpoints[e].PathParams # template0[e].PathParams

\* C17: after a successful run, a PUT endpoint whose template had a null
\* path parameter has that parameter filled with a non-null value
C17_PutFillsPathParams ==
    output.written =>
      \A e \in DOMAIN output.endpoints :
        (MethodOf(e) = <<"P","U","T">> /\ status[e] = Ok) =>
          \A p \in DOMAIN template0[e].PathParams :
            template0[e].PathParams[p] = JNull => output.endpoints[e].PathParams[p] # JNull

\* C18: for the empty array template, generateBodyFromTemplate returns an
\* array of exactly one element, an object whose keys are the columns of
\* the sample record
C18_EmptyArrayYieldsOneRecord ==
    (call.fn = "generateBodyFromTemplate" /\ call.template = JArr(<<>>) /\ call.result.ok)
      => /\ call.result.value.t = "array"
         /\ Len(call.result.value.v) = 1
         /\ call.result.value.v[1].t = "object"
         /\ DOMAIN call.result.value.v[1].v = DOMAIN call.sampleRecord

\* `after` has the key set and nesting shape of `before`, and differs from it
\* only where `before` has a null leaf.  An array may change its number of
\* items as long as each item has the shape of the first item of `before`.
RECURSIVE SameShape(_, _)
SameShape(before, after) ==
    IF before = JNull THEN TRUE
    ELSE IF before.t = "object"
      THEN /\ after # JNull
           /\ after.t = "object"
           /\ DOMAIN after.v = DOMAIN before.v
           /\ \A k \in DOMAIN before.v : SameShape(before.v[k], after.v[k])
    ELSE IF before.t = "array"
      THEN /\ after # JNull
           /\ after.t = "array"
           /\ Len(before.v) > 0 => \A i \in 1..Len(after.v) : SameShape(before.v[1], after.v[i])
    ELSE after = before

\* C19: the written template has exactly the endpoint keys of the input
\* template, and each endpoint's path parameters, query parameters and body
\* keep their key set and nesting shape; only leaves that were null differ
C19_ShapePreserved ==
    output.written =>
      /\ DOMAIN output.endpoints = DOMAIN template0
      /\ \A e \in DOMAIN template0 :
           /\ SameShape(JObj(template0[e].PathParams), JObj(output.endpoints[e].PathParams))
           /\ SameShape(JObj(template0[e].QueryParams), JObj(output.endpoints[e].QueryParams))
           /\ SameShape(template0[e].Body, output.endpoints[e].Body)

\* C20: the template is written at most once per run and only after every
\* endpoint has been processed, nothing is processed after the write, and a
\* failure at startup (connection or template load) ends the run with no
\* endpoint processed and nothing written
C20_WrittenOnceAtTheEnd ==
    [][ /\ output' # output =>
             /\ ~output.written
             /\ output'.written
             /\ \A e \in DOMAIN template0 : status[e] # Pending
        /\ output.written => (status' = status /\ template' = template)
        /\ (pc = "start" /\ pc' = "fatal") =>
             /\ \A e \in DOMAIN template0 : status'[e] = Pending
             /\ ~output'.written
        /\ pc # "fatal" ]_vars

\* the template has been written after an endpoint was generated and
\* another one was skipped with a warning
C20_Witness ==
    /\ output.written
    /\ \E e \in DOMAIN template0 : status[e] = Ok
    /\ \E e \in DOMAIN template0 : status[e].state = "failed"

\* The columns of the tables analyzeEndpointTables returned for endpoint e
ResolvedColumns(e) ==
    UNION {ColumnsIgnoringCase(resolution[e].tables[i]) : i \in 1..Len(resolution[e].tables)}

\* The null query parameters of e that no resolved column matches, and
\* those that a non-nullable resolved column matches
UnmatchedParams(e) ==
    {p \in DOMAIN template0[e].QueryParams :
       /\ template0[e].QueryParams[p] = JNull
       /\ \A col \in ResolvedColumns(e) : ~EqualFold(col.Name, p)}

MatchedParams(e) ==
    {p \in DOMAIN template0[e].QueryParams :
       /\ template0[e].QueryParams[p] = JNull
       /\ \E col \in ResolvedColumns(e) : EqualFold(col.Name, p) /\ ~col.IsNullable}

\* C21: a GET endpoint with a null query parameter that matches no column
\* of its resolved tables does not fail: once processed it is generated,
\* the parameter is still null, the parameters that do match a column have
\* been given a value, and the run goes on
C21_UnmatchedParamLeftNull ==
    \A e \in DOMAIN template0 :
      (/\ MethodOf(e) = <<"G","E","T">>
       /\ resolution[e].state = "ok"
       /\ UnmatchedParams(e) # {}
       /\ status[e] # Pending)
        => /\ status[e] = Ok
           /\ pc # "crashed"
           /\ \A p \in UnmatchedParams(e) : template[e].QueryParams[p] = JNull
           /\ \A p \in MatchedParams(e) : template[e].QueryParams[p] # JNull

\* the value a body has for a field: null when the key is absent
FieldOf(body, fieldName) ==
    IF body # JNull /\ body.t = "object" /\ fieldName \in DOMAIN body.v
    THEN body.v[fieldName] ELSE JNull

\* C22: when the synthesis of one body field fails, generateBodyFromDB
\* still returns a body, and the failed field is left as it was in the
\* template: null (or absent) if it was null, else at its prior value
C22_FieldFailureSkipsOnlyThatField ==
    (call.fn = "generateBodyFromDB" /\ call.failed # {})
      => /\ call.result.ok
         /\ \A f \in call.failed : FieldOf(call.result.value, f) = call.fields[f]

\* The blocking calls of the table disambiguation of endpoint e that have
\* returned, in order
IsDisambiguationCall(x) == x.call \in {"AnalyzeRelationships", "Scanln"}
DisambiguationLog(e) == SelectSeq(io[e], IsDisambiguationCall)

\* C23: a table disambiguation is one call of the suggestion service
\* followed by one blocking read of the operator's input: no read comes
\* before the call has returned, at most one read is made, exactly one
\* once the disambiguation has ended after a successful call, and after a
\* failed call nothing is read and the resolution has failed
C23_OneSuggestionThenOneRead ==
    \A e \in DOMAIN template0 :
      LET log == DisambiguationLog(e)
      IN  log # <<>> =>
            /\ log[1].call = "AnalyzeRelationships"
            /\ \A i \in 2..Len(log) : log[i].call = "Scanln"
            /\ Len(log) <= 2
            /\ (log[1].ok /\ resolution[e].state # "none") => Len(log) = 2
            /\ ~log[1].ok => (Len(log) = 1 /\ resolution[e].state = "error")

\* C24: whenever the underlying LLM call is unavailable or fails, every
\* BaseClient operation ends with an error: no result and no crash, for
\* any sample-data list, the empty one included
C24_ClientFailureIsAnError ==
    (call.fn = "BaseClient" /\ (call.source = "client.go" \/ call.llm \in {"unavailable", "failed"}))
      => call.outcome = "error"

\* C26: for a non-empty array template the result is an array of 1, 2 or 3
\* items, each item has the shape of the template's first element (an object
\* stencil gives its key set and keeps its non-null scalars, a scalar stencil
\* gives that scalar), and the result is one the template reduced to its
\* first element can give as well
C26_ArrayFollowsFirstElement ==
    (call.fn = "generateBodyFromTemplate" /\ call.template.t = "array"
       /\ Len(call.template.v) > 0)
      => /\ call.result.ok
         /\ call.result.value.t = "array"
         /\ Len(call.result.value.v) \in 1..3
         /\ \A i \in 1..Len(call.result.value.v) :
              SameShape(call.template.v[1], call.result.value.v[i])
         /\ call.result.value \in
              generateBodyFromTemplate(JArr(<<call.template.v[1]>>), call.sampleRecord)

\* C30: RunTests eventually returns, for every configuration LoadConfig can
\* produce (MaxWorkers = 0 and Retry.Attempts = 0 included), when every
\* goroutine that can take a step takes it and every HTTP call returns
C30_RunTestsReturns == <>(returned.done)

\* The results RunTests returned that carry the path and method of endpoint i
ResultsOf(i) ==
    {j \in 1..Len(returned.results) :
       /\ returned.results[j].Endpoint = endpoints[i].Path
       /\ returned.results[j].Method = endpoints[i].Method}

\* C27: what RunTests returns has exactly one result per input endpoint,
\* carrying the endpoint's path and method, and RunTests returns only after
\* every goroutine has finished
C27_OneResultPerEndpoint ==
    returned.done =>
      /\ Len(returned.results) = Len(endpoints)
      /\ \A i \in 1..Len(endpoints) : Cardinality(ResultsOf(i)) = 1
      /\ \A i \in 1..Len(endpoints) : worker[i].pc = "done"

\* The goroutines that are loading test data, building the request or in
\* the retry loop of the HTTP test
Busy == {i \in DOMAIN worker : worker[i].pc \in {"load", "build", "execute", "sleep"}}

\* C28: at every moment at most MaxWorkers endpoints are being loaded,
\* built or executed
C28_AtMostMaxWorkersBusy == Cardinality(Busy) <= config.MaxWorkers

\* two endpoints are being worked on under MaxWorkers = 2, one of them in
\* its HTTP test, while a third waits for the semaphore
C28_Witness ==
    /\ config.MaxWorkers = 2
    /\ Cardinality(Busy) = 2
    /\ \E i \in Busy : worker[i].pc = "execute"
    /\ \E i \in DOMAIN worker : worker[i].pc = "acquire"

\* C29: an HTTP test is made only while fewer than Retry.Attempts have been
\* made; an attempt without error ends the loop; a wait is followed by
\* another attempt; and the result appended is the one of the last attempt
C29_RetryLoop ==
    [][\A i \in DOMAIN worker :
         /\ worker[i].pc = "execute" => worker[i].attempt < config.Attempts
         /\ (worker[i].pc = "execute" /\ worker'[i].pc # "execute"
               /\ worker'[i].result.Error = NilError) => worker'[i].pc = "lock"
         /\ (worker[i].pc = "sleep" /\ worker'[i].pc # "sleep") => worker'[i].pc = "execute"
         /\ worker[i].pc \in {"sleep", "lock", "append"} => worker'[i].result = worker[i].result
         /\ (worker[i].pc = "append" /\ worker'[i].pc = "return")
              => results' = Append(results, worker[i].result)]_vars

\* C25: the report's counts add up to the number of results RunTests
\* returned, and the results counted as passed are those with status SUCCESS
C25_ReportCounts ==
    report.generated =>
      /\ report.TotalTests = Len(returned.results)
      /\ report.PassedTests + report.FailedTests = report.TotalTests
      /\ report.PassedTests =
           Cardinality({j \in 1..Len(returned.results) : returned.results[j].Status = "SUCCESS"})

====
